---------------------------- MODULE Spec2Model ----------------------------
(***************************************************************************)
(* swiftbench: a closed-loop HTTP load generator.                          *)
(*                                                                         *)
(* The module holds ten specifications over one set of variables:          *)
(*   Spec      the orchestrator, its worker threads (RequestLoop) and the  *)
(*             MetricsAggregator, with the message channels between them;  *)
(*   SpecLive  Spec with the fairness of the event loops and the clock;    *)
(*   SpecHist  the Histogram class driven by record / merge / reset;       *)
(*   SpecAgg   the MetricsAggregator fed a bounded list of snapshots in    *)
(*             every order;                                                *)
(*   SpecCli   the single-run command (probe, run, report, thresholds);    *)
(*   SpecRate  the request loops of one run under a rate limit;            *)
(*   SpecLoop  one RequestLoop and what its requests settle with;          *)
(*   SpecLife  one LifecycleManager under start, update and complete;      *)
(*   SpecBucket  one RateLimiter on a millisecond clock;                   *)
(*   SpecShare the shares of connections and rate the workers are sent.    *)
(* A specification leaves the variables of the others untouched.           *)
(*                                                                         *)
(* Numbers.  Latencies are integers in microseconds.  JavaScript doubles   *)
(* are modelled by exact arithmetic: a quotient is a record [n, d], and a  *)
(* value rounded to two decimals of a millisecond is the integer number    *)
(* of hundredths of a millisecond (10 us).                                 *)
(***************************************************************************)
EXTENDS Integers, Sequences, FiniteSets, TLC

VARIABLES
  hist,       \* SpecHist: the three Histogram objects A, B, C
  aggSnaps,   \* SpecAgg: the snapshots to feed
  aggAdded,   \* SpecAgg: indices of the snapshots already fed
  aggCur,     \* SpecAgg: the MetricsAggregator under test
  cfg,        \* Spec: the BenchConfig given to the Orchestrator
  now,        \* Spec: performance.now(), in seconds
  wk,         \* Spec: per worker thread, its RequestLoop and position
  toMain,     \* Spec: per worker, messages and events queued for the main thread
  toWorker,   \* Spec: per worker, messages queued for the worker
  orch,       \* Spec: the Orchestrator's fields and its run() promise
  agg,        \* Spec: the Orchestrator's MetricsAggregator
  issued,     \* Spec: number of HTTP requests dispatched so far (observer)
  received,   \* Spec: what the main thread has handled: the sum of snapshot.requests, and the workers whose done arrived (observer)
  cli,        \* SpecCli: the runCommand invocation
  rl,         \* SpecRate: the rate-limited request loops of one run
  lp,         \* SpecLoop: one RequestLoop's state and the request in flight
  recorded,   \* SpecHist: per Histogram, the values recorded into it, in ascending order (observer)
  lc,         \* SpecLife: one LifecycleManager, the clock and the last call made on it
  tb,         \* SpecBucket: one RateLimiter, the clock in milliseconds and its caller
  sh          \* SpecShare: one Orchestrator's worker count and the WorkerConfigs it sent

histVars == <<hist, recorded>>
aggVars  == <<aggSnaps, aggAdded, aggCur>>
runVars  == <<cfg, now, wk, toMain, toWorker, orch, agg, issued, received>>
cliVars  == <<cli>>
rateVars == <<rl>>
loopVars == <<lp>>
lifeVars == <<lc>>
bucketVars == <<tb>>
shareVars == <<sh>>
vars     == <<hist, aggSnaps, aggAdded, aggCur, cfg, now, wk, toMain, toWorker,
              orch, agg, issued, received, cli, rl, lp, recorded, lc, tb, sh>>

-----------------------------------------------------------------------------
(* Program constants (constants.ts)                                        *)

HISTOGRAM_BUCKETS == 10000
MAX_LATENCY_US == 10000000
BUCKET_WIDTH_US == MAX_LATENCY_US \div HISTOGRAM_BUCKETS
METRICS_INTERVAL_MS == 1000
MAX_WORKERS == 8
SUCCESS_STATUS_CODES == {200, 201, 202, 204, 301, 302, 304}
EXIT_SUCCESS == 0
EXIT_THRESHOLD_EXCEEDED == 1
EXIT_ERROR == 2

\* Number.MAX_SAFE_INTEGER (2^53 - 1) is the initial min of a Histogram.  It is
\* only ever compared with latencies; the model uses the largest integer TLC
\* holds, which is likewise above every latency.
MAX_SAFE_INTEGER == 2147483647

-----------------------------------------------------------------------------
(* Helpers                                                                 *)

Min2(a, b) == IF a < b THEN a ELSE b
Max2(a, b) == IF a > b THEN a ELSE b
SetMin(S) == CHOOSE x \in S : \A y \in S : x <= y

\* Math.ceil(n / d) and Math.floor(n / d) for d > 0
Ceil(n, d) == -((-n) \div d)
Floor(n, d) == n \div d

RECURSIVE SumOver(_, _)
\* sum of f[x] over x in S
SumOver(f, S) ==
  IF S = {} THEN 0
  ELSE LET x == CHOOSE y \in S : TRUE IN f[x] + SumOver(f, S \ {x})

EmptyFn == [x \in {} |-> 0]

-----------------------------------------------------------------------------
(* Histogram (histogram.ts).  The Uint32Array of HISTOGRAM_BUCKETS counters *)
(* is held sparsely: buckets is a function whose domain is the set of       *)
(* indices with a non-zero count; every other index reads 0.               *)

NewHistogram ==
  [buckets |-> EmptyFn, count |-> 0, min |-> MAX_SAFE_INTEGER, max |-> 0, sum |-> 0]

BucketAt(buckets, i) == IF i \in DOMAIN buckets THEN buckets[i] ELSE 0

SetBucket(buckets, i, v) ==
  [j \in (DOMAIN buckets) \cup {i} |-> IF j = i THEN v ELSE buckets[j]]

\* record with the sum accumulated from the clamped value (mutant)
recordClampedSum(h, valueUs) ==
  LET clampedValue == Min2(valueUs, MAX_LATENCY_US - 1)
      bucketIndex  == Floor(clampedValue, BUCKET_WIDTH_US)
      safeIndex    == Min2(bucketIndex, HISTOGRAM_BUCKETS - 1)
  IN [buckets |-> IF safeIndex \in 0..(HISTOGRAM_BUCKETS - 1)
                    THEN SetBucket(h.buckets, safeIndex, BucketAt(h.buckets, safeIndex) + 1)
                    ELSE h.buckets,
      count |-> h.count + 1,
      sum   |-> h.sum + clampedValue,
      min   |-> IF valueUs < h.min THEN valueUs ELSE h.min,
      max   |-> IF valueUs > h.max THEN valueUs ELSE h.max]

\* record that clamps the value to MAX_LATENCY_US, not MAX_LATENCY_US - 1 (mutant)
recordClampedToMax(h, valueUs) ==
  LET clampedValue == Min2(valueUs, MAX_LATENCY_US)
      bucketIndex  == Floor(clampedValue, BUCKET_WIDTH_US)
  IN [buckets |-> IF bucketIndex \in 0..(HISTOGRAM_BUCKETS - 1)
                    THEN SetBucket(h.buckets, bucketIndex, BucketAt(h.buckets, bucketIndex) + 1)
                    ELSE h.buckets,
      count |-> h.count + 1,
      sum   |-> h.sum + valueUs,
      min   |-> IF valueUs < h.min THEN valueUs ELSE h.min,
      max   |-> IF valueUs > h.max THEN valueUs ELSE h.max]

record(h, valueUs) ==
  LET clampedValue == Min2(valueUs, MAX_LATENCY_US - 1)
      bucketIndex  == Floor(clampedValue, BUCKET_WIDTH_US)
      safeIndex    == Min2(bucketIndex, HISTOGRAM_BUCKETS - 1)
  IN [buckets |-> IF safeIndex \in 0..(HISTOGRAM_BUCKETS - 1)
                    THEN SetBucket(h.buckets, safeIndex, BucketAt(h.buckets, safeIndex) + 1)
                    ELSE h.buckets,
      count |-> h.count + 1,
      sum   |-> h.sum + valueUs,
      min   |-> IF valueUs < h.min THEN valueUs ELSE h.min,
      max   |-> IF valueUs > h.max THEN valueUs ELSE h.max]

getCount(h) == h.count
getMin(h) == IF h.count > 0 THEN h.min ELSE 0
getMax(h) == h.max
getSum(h) == h.sum
\* the quotient sum / count
getMean(h) == IF h.count > 0 THEN [n |-> h.sum, d |-> h.count] ELSE [n |-> 0, d |-> 1]

\* cumulative count of the buckets 0..i
Cumulative(buckets, i) == SumOver(buckets, {j \in DOMAIN buckets : j <= i})

\* getPercentile without the test for an empty histogram (mutant)
getPercentileUnguarded(h, pn, pd) ==
  LET targetCount == Ceil(pn * h.count, pd * 100)
      hits == {i \in (DOMAIN h.buckets) \cup {0} :
                 Cumulative(h.buckets, i) >= targetCount}
  IN IF hits = {} THEN MAX_LATENCY_US
     ELSE SetMin(hits) * BUCKET_WIDTH_US + BUCKET_WIDTH_US \div 2

\* getPercentile with the target rounded down (mutant)
getPercentileFloorTarget(h, pn, pd) ==
  IF h.count = 0 THEN 0
  ELSE LET targetCount == Floor(pn * h.count, pd * 100)
           hits == {i \in (DOMAIN h.buckets) \cup {0} :
                      Cumulative(h.buckets, i) >= targetCount}
       IN IF hits = {} THEN MAX_LATENCY_US
          ELSE SetMin(hits) * BUCKET_WIDTH_US + BUCKET_WIDTH_US \div 2

\* percentile is the quotient pn / pd (99.9 is 999 / 10).  The scan over
\* i = 0..HISTOGRAM_BUCKETS-1 stops at the first i whose cumulative count
\* reaches the target: index 0 when the target is not positive, otherwise an
\* index with a non-zero count.
getPercentile(h, pn, pd) ==
  IF h.count = 0 THEN 0
  ELSE LET targetCount == Ceil(pn * h.count, pd * 100)
           hits == {i \in (DOMAIN h.buckets) \cup {0} :
                      Cumulative(h.buckets, i) >= targetCount}
       IN IF hits = {} THEN MAX_LATENCY_US
          ELSE SetMin(hits) * BUCKET_WIDTH_US + BUCKET_WIDTH_US \div 2

\* getStdDev, by its sign: 0 with fewer than two samples; otherwise the
\* square root of the mean squared distance of the occupied buckets'
\* midpoints (i + 0.5) * BUCKET_WIDTH_US from sum / count, which is 0 exactly
\* when every occupied bucket's midpoint is the mean, and positive otherwise.
getStdDevSign(h) ==
  IF h.count < 2 THEN 0
  ELSE IF \A i \in DOMAIN h.buckets :
            h.buckets[i] > 0 => (2 * i + 1) * (BUCKET_WIDTH_US \div 2) * h.count = h.sum
         THEN 0
         ELSE 1

export(h) == h

\* import with min and max taken from the incoming data unconditionally (mutant)
importOverwrite(h, data) ==
  [buckets |-> [i \in (DOMAIN h.buckets) \cup (DOMAIN data.buckets) |->
                  BucketAt(h.buckets, i) + BucketAt(data.buckets, i)],
   count |-> h.count + data.count,
   sum   |-> h.sum + data.sum,
   min   |-> IF data.count > 0 THEN data.min ELSE h.min,
   max   |-> IF data.count > 0 THEN data.max ELSE h.max]

import(h, data) ==
  [buckets |-> [i \in (DOMAIN h.buckets) \cup (DOMAIN data.buckets) |->
                  BucketAt(h.buckets, i) + BucketAt(data.buckets, i)],
   count |-> h.count + data.count,
   sum   |-> h.sum + data.sum,
   min   |-> IF data.count > 0 /\ data.min < h.min THEN data.min ELSE h.min,
   max   |-> IF data.count > 0 /\ data.max > h.max THEN data.max ELSE h.max]

merge(h, other) == import(h, export(other))

reset(h) == NewHistogram

-----------------------------------------------------------------------------
(* percentiles.ts                                                          *)

\* toMs: us / 1000, for a quotient us = [n, d] of microseconds
toMs(us) == [n |-> us.n, d |-> us.d * 1000]

\* roundTo(value, 2): Math.round(value * 100) / 100, as the integer number of
\* hundredths.  value * 100 is formed by cancelling 100 from the denominator
\* (always a multiple of 1000 after toMs); Math.round(x) is floor(x + 1/2).
roundTo(value) ==
  LET x == [n |-> value.n, d |-> value.d \div 100]
  IN Floor(2 * x.n + x.d, 2 * x.d)

Whole(v) == [n |-> v, d |-> 1]

\* stddev (a square root) is left out of the latency block: it is
\* roundTo(toMs(getStdDev())), which is 0 when getStdDev() is 0
calculatePercentiles(h) ==
  [min  |-> toMs(Whole(getMin(h))),
   max  |-> toMs(Whole(getMax(h))),
   mean |-> toMs(getMean(h)),
   p50  |-> toMs(Whole(getPercentile(h, 50, 1))),
   p75  |-> toMs(Whole(getPercentile(h, 75, 1))),
   p90  |-> toMs(Whole(getPercentile(h, 90, 1))),
   p95  |-> toMs(Whole(getPercentile(h, 95, 1))),
   p99  |-> toMs(Whole(getPercentile(h, 99, 1))),
   p999 |-> toMs(Whole(getPercentile(h, 999, 10)))]

formatLatencyStats(stats) ==
  [min  |-> roundTo(stats.min),
   max  |-> roundTo(stats.max),
   mean |-> roundTo(stats.mean),
   p50  |-> roundTo(stats.p50),
   p75  |-> roundTo(stats.p75),
   p90  |-> roundTo(stats.p90),
   p95  |-> roundTo(stats.p95),
   p99  |-> roundTo(stats.p99),
   p999 |-> roundTo(stats.p999)]

-----------------------------------------------------------------------------
(* RequestLoop state (loop.ts)                                             *)

\* What client.execute() settles with: a response that arrived intact, or a
\* throw.  Of a thrown value the loop looks at three things: whether it is an
\* Error, its name, and whether its message includes 'timeout' (lower case).
Response(statusCode, bytes, latencyUs) ==
  [kind |-> "response", statusCode |-> statusCode, bytes |-> bytes, latencyUs |-> latencyUs,
   isError |-> FALSE, name |-> "", messageIncludesTimeout |-> FALSE]
Thrown(isError, name, messageIncludesTimeout) ==
  [kind |-> "throw", statusCode |-> 0, bytes |-> 0, latencyUs |-> 0,
   isError |-> isError, name |-> name, messageIncludesTimeout |-> messageIncludesTimeout]

\* an Error named TimeoutError, and an Error whose message includes 'timeout'
TimeoutNamedError == Thrown(TRUE, "TimeoutError", FALSE)
TimeoutMessageError == Thrown(TRUE, "Error", TRUE)
\* what pool.request() rejects with when headersTimeout or bodyTimeout trips:
\* undici's HeadersTimeoutError 'Headers Timeout Error' and BodyTimeoutError
\* 'Body Timeout Error'
HeadersTimeoutError == Thrown(TRUE, "HeadersTimeoutError", FALSE)
BodyTimeoutError == Thrown(TRUE, "BodyTimeoutError", FALSE)
\* a refused or reset connection, and a thrown value that is not an Error
SocketError == Thrown(TRUE, "SocketError", FALSE)
ThrownValue == Thrown(FALSE, "", FALSE)

createInitialState ==
  [running |-> TRUE, requests |-> 0, successful |-> 0, failed |-> 0, bytes |-> 0,
   latencies |-> <<>>,
   errors |-> [timeouts |-> 0, connectionErrors |-> 0, byStatusCode |-> EmptyFn]]

\* executeRequest up to its await: this.state.requests++
executeRequestBegin(s) == [s EXCEPT !.requests = @ + 1]

\* the try branch with a non-success status that is not tallied by status (mutant)
onResponseNoStatusTally(s, response) ==
  LET s1 == [s EXCEPT !.latencies = Append(@, response.latencyUs),
                      !.bytes = @ + response.bytes]
  IN IF response.statusCode \in SUCCESS_STATUS_CODES
       THEN [s1 EXCEPT !.successful = @ + 1]
       ELSE [s1 EXCEPT !.failed = @ + 1]

\* the try branch with success taken to be a 2xx status (mutant)
onResponseOnly2xx(s, response) ==
  LET s1 == [s EXCEPT !.latencies = Append(@, response.latencyUs),
                      !.bytes = @ + response.bytes]
  IN IF response.statusCode >= 200 /\ response.statusCode < 300
       THEN [s1 EXCEPT !.successful = @ + 1]
       ELSE [s1 EXCEPT !.failed = @ + 1,
                       !.errors.byStatusCode =
                          SetBucket(@, response.statusCode,
                                    BucketAt(@, response.statusCode) + 1)]

\* executeRequest after the await, a response returned (the try branch)
onResponse(s, response) ==
  LET s1 == [s EXCEPT !.latencies = Append(@, response.latencyUs),
                      !.bytes = @ + response.bytes]
  IN IF response.statusCode \in SUCCESS_STATUS_CODES
       THEN [s1 EXCEPT !.successful = @ + 1]
       ELSE [s1 EXCEPT !.failed = @ + 1,
                       !.errors.byStatusCode =
                          SetBucket(@, response.statusCode,
                                    BucketAt(@, response.statusCode) + 1)]

\* executeRequest after the await, client.execute() threw (the catch branch)
onThrow(s, err) ==
  LET s1 == [s EXCEPT !.failed = @ + 1]
  IN IF err.isError /\ (err.messageIncludesTimeout \/ err.name = "TimeoutError")
       THEN [s1 EXCEPT !.errors.timeouts = @ + 1]
       ELSE [s1 EXCEPT !.errors.connectionErrors = @ + 1]

executeRequestEnd(s, outcome) ==
  IF outcome.kind = "response" THEN onResponse(s, outcome) ELSE onThrow(s, outcome)

\* getSnapshot: a copy of the running totals since the loop was created
getSnapshot(id, s) ==
  [workerId |-> id,
   requests |-> s.requests,
   successful |-> s.successful,
   failed |-> s.failed,
   bytes |-> s.bytes,
   latencies |-> s.latencies,
   errors |-> s.errors]

-----------------------------------------------------------------------------
(* MetricsAggregator (aggregator.ts).  statusCodes is a Map: a sequence of  *)
(* <<key, value>> pairs in insertion order.                                *)

MapHas(m, k) == \E i \in 1..Len(m) : m[i][1] = k
MapGet(m, k) == LET i == CHOOSE j \in 1..Len(m) : m[j][1] = k IN m[i][2]
MapSet(m, k, v) ==
  IF MapHas(m, k)
    THEN [i \in 1..Len(m) |-> IF m[i][1] = k THEN <<k, v>> ELSE m[i]]
    ELSE Append(m, <<k, v>>)
MapKeys(m) == {m[i][1] : i \in 1..Len(m)}

\* String(n) for an integer n >= 0, as its decimal digits
RECURSIVE ToDigits(_)
ToDigits(n) == IF n < 10 THEN <<n>> ELSE Append(ToDigits(n \div 10), n % 10)

\* parseInt(code, 10) of a string of decimal digits
RECURSIVE parseInt(_)
parseInt(ds) ==
  IF ds = <<>> THEN 0 ELSE parseInt(SubSeq(ds, 1, Len(ds) - 1)) * 10 + ds[Len(ds)]

\* Object.entries(byStatusCode): integer-like keys come in ascending order, as strings
RECURSIVE ObjectEntries(_)
ObjectEntries(obj) ==
  IF DOMAIN obj = {} THEN <<>>
  ELSE LET k == SetMin(DOMAIN obj)
       IN <<<<ToDigits(k), obj[k]>>>> \o
          ObjectEntries([j \in (DOMAIN obj) \ {k} |-> obj[j]])

NewAggregator ==
  [histogram |-> NewHistogram, totalRequests |-> 0, successfulRequests |-> 0,
   failedRequests |-> 0, totalBytes |-> 0, timeouts |-> 0, connectionErrors |-> 0,
   statusCodes |-> <<>>]

RECURSIVE RecordAll(_, _)
\* for (const latency of snapshot.latencies) this.histogram.record(latency)
RecordAll(h, latencies) ==
  IF latencies = <<>> THEN h ELSE RecordAll(record(h, Head(latencies)), Tail(latencies))

\* the status-code loop with set(statusCode, count) in place of existing + count (mutant)
RECURSIVE AddStatusCodesLastWins(_, _)
AddStatusCodesLastWins(m, entries) ==
  IF entries = <<>> THEN m
  ELSE LET statusCode == parseInt(Head(entries)[1])
       IN AddStatusCodesLastWins(MapSet(m, statusCode, Head(entries)[2]), Tail(entries))

RECURSIVE AddStatusCodes(_, _)
\* for (const [code, count] of Object.entries(...)) statusCodes.set(parseInt(code), existing + count)
AddStatusCodes(m, entries) ==
  IF entries = <<>> THEN m
  ELSE LET statusCode == parseInt(Head(entries)[1])
           existing   == IF MapHas(m, statusCode) THEN MapGet(m, statusCode) ELSE 0
       IN AddStatusCodes(MapSet(m, statusCode, existing + Head(entries)[2]), Tail(entries))

addSnapshot(a, snapshot) ==
  [histogram          |-> RecordAll(a.histogram, snapshot.latencies),
   totalRequests      |-> a.totalRequests + snapshot.requests,
   successfulRequests |-> a.successfulRequests + snapshot.successful,
   failedRequests     |-> a.failedRequests + snapshot.failed,
   totalBytes         |-> a.totalBytes + snapshot.bytes,
   timeouts           |-> a.timeouts + snapshot.errors.timeouts,
   connectionErrors   |-> a.connectionErrors + snapshot.errors.connectionErrors,
   statusCodes        |-> AddStatusCodes(a.statusCodes,
                                         ObjectEntries(snapshot.errors.byStatusCode))]

\* byStatusCode is a plain object: a function of the keys, whatever the Map's order.
\* calculatePercentiles(this.histogram) is evaluated once, as the argument of
\* formatLatencyStats.
getMetrics(a) ==
  [totalRequests      |-> a.totalRequests,
   successfulRequests |-> a.successfulRequests,
   failedRequests     |-> a.failedRequests,
   totalBytes         |-> a.totalBytes,
   latency            |-> CHOOSE latency \in
                             {formatLatencyStats(stats) :
                                stats \in {calculatePercentiles(a.histogram)}} : TRUE,
   errors |-> [timeouts         |-> a.timeouts,
               connectionErrors |-> a.connectionErrors,
               byStatusCode     |-> [code \in MapKeys(a.statusCodes) |->
                                       MapGet(a.statusCodes, code)]]]

-----------------------------------------------------------------------------
(* Values a specification gives the variables it does not use              *)

HistIdle == hist = <<>> /\ recorded = <<>>
AggIdle  == aggSnaps = <<>> /\ aggAdded = {} /\ aggCur = <<>>
RunIdle  == /\ cfg = <<>> /\ now = 0 /\ wk = <<>> /\ toMain = <<>> /\ toWorker = <<>>
            /\ orch = <<>> /\ agg = <<>> /\ issued = 0 /\ received = <<>>
CliIdle  == cli = <<>>
RateIdle == rl = <<>>
LoopIdle == lp = <<>>
LifeIdle == lc = <<>>
BucketIdle == tb = <<>>
ShareIdle == sh = <<>>

-----------------------------------------------------------------------------
(* SpecHist: three Histogram objects under record, merge and reset         *)

\* bound: samples held by the three histograms together
MaxSamples == 4

HistNames == {"A", "B", "C"}

\* values recorded, in microseconds: two in bucket 0, one in bucket 1, one just
\* under MAX_LATENCY_US, MAX_LATENCY_US itself, one above it, and one below 0,
\* which record(valueUs: number) accepts though no latency measured is negative
Samples == {-1, 100, 900, 1500, 9999999, 10000000, 12000000}

TotalCount == hist["A"].count + hist["B"].count + hist["C"].count

\* the ascending sequence s with v put in its place
InsertSorted(s, v) ==
  LET k == Cardinality({i \in DOMAIN s : s[i] <= v})
  IN SubSeq(s, 1, k) \o <<v>> \o SubSeq(s, k + 1, Len(s))

RECURSIVE InsertAll(_, _)
\* the ascending sequence s with every value of the sequence t put in its place
InsertAll(s, t) ==
  IF t = <<>> THEN s ELSE InsertAll(InsertSorted(s, Head(t)), Tail(t))

InitHist ==
  /\ hist = [x \in HistNames |-> NewHistogram]
  /\ recorded = [x \in HistNames |-> <<>>]
  /\ AggIdle /\ RunIdle /\ CliIdle /\ RateIdle /\ LoopIdle
  /\ LifeIdle /\ BucketIdle /\ ShareIdle

HistRecord(x, v) ==
  /\ TotalCount < MaxSamples
  /\ hist' = [hist EXCEPT ![x] = record(@, v)]
  /\ recorded' = [recorded EXCEPT ![x] = InsertSorted(@, v)]
  /\ UNCHANGED <<aggVars, runVars, cliVars, rateVars, loopVars, lifeVars, bucketVars, shareVars>>

HistMerge(x, y) ==
  /\ x # y
  /\ TotalCount + hist[y].count <= MaxSamples
  /\ hist' = [hist EXCEPT ![x] = merge(@, hist[y])]
  /\ recorded' = [recorded EXCEPT ![x] = InsertAll(@, recorded[y])]
  /\ UNCHANGED <<aggVars, runVars, cliVars, rateVars, loopVars, lifeVars, bucketVars, shareVars>>

HistReset(x) ==
  /\ hist' = [hist EXCEPT ![x] = reset(@)]
  /\ recorded' = [recorded EXCEPT ![x] = <<>>]
  /\ UNCHANGED <<aggVars, runVars, cliVars, rateVars, loopVars, lifeVars, bucketVars, shareVars>>

NextHist ==
  \/ \E x \in HistNames, v \in Samples : HistRecord(x, v)
  \/ \E x \in HistNames, y \in HistNames : HistMerge(x, y)
  \/ \E x \in HistNames : HistReset(x)

SpecHist == InitHist /\ [][NextHist]_vars

\* formatLatencyStats(calculatePercentiles(h)): the latency block of a result
LatencyOf(h) == formatLatencyStats(calculatePercentiles(h))

\* C6: whenever a histogram holds at least one sample, after any sequence of
\* record, merge (import of an export) and reset, count * min <= sum <= count * max,
\* that is min <= mean <= max; and the latency block computed from it has
\* min <= mean <= max (in hundredths of a millisecond).
C6_MeanBetweenMinAndMax ==
  \A x \in HistNames :
    LET h  == hist[x]
        st == LatencyOf(h)
    IN h.count > 0 =>
         /\ h.count * getMin(h) <= getSum(h)
         /\ getSum(h) <= h.count * getMax(h)
         /\ st.min <= st.mean
         /\ st.mean <= st.max

\* a histogram holding several samples, one of them above MAX_LATENCY_US, with
\* min < mean < max
C6_Witness ==
  \E x \in HistNames :
    /\ hist[x].count >= 2
    /\ hist[x].max > MAX_LATENCY_US
    /\ hist[x].count * hist[x].min < hist[x].sum
    /\ hist[x].sum < hist[x].count * hist[x].max

\* C8: merge is commutative and associative on the histograms A, B, C (empty
\* ones included): merging A then C into B equals merging C then A into B,
\* merge(merge(A,B),C) equals merge(A,merge(B,C)), and merge(A,B) equals
\* merge(B,A), in buckets, count, sum, min and max and in the percentiles read
\* from the result.
C8_MergeCommutativeAssociative ==
  LET A   == hist["A"]
      B   == hist["B"]
      C   == hist["C"]
      BAC == merge(merge(B, A), C)
      BCA == merge(merge(B, C), A)
      AB  == merge(A, B)
      BA  == merge(B, A)
  IN /\ BAC = BCA
     /\ LatencyOf(BAC) = LatencyOf(BCA)
     /\ merge(AB, C) = merge(A, merge(B, C))
     /\ AB = BA
     /\ LatencyOf(AB) = LatencyOf(BA)

\* three non-empty histograms with different extremes and buckets
C8_Witness ==
  /\ hist["A"].count >= 1 /\ hist["B"].count >= 2 /\ hist["C"].count >= 1
  /\ hist["A"].min < hist["B"].min
  /\ hist["C"].max > hist["B"].max
  /\ DOMAIN hist["A"].buckets # DOMAIN hist["C"].buckets

-----------------------------------------------------------------------------
(* SpecAgg: one MetricsAggregator fed the same snapshots in every order    *)

\* bound: snapshots fed to the aggregator
NumSnaps == 3

\* the RequestLoop state after the given outcomes, one request each
RECURSIVE LoopAfter(_)
LoopAfter(outcomes) ==
  IF outcomes = <<>> THEN createInitialState
  ELSE executeRequestEnd(
         executeRequestBegin(LoopAfter(SubSeq(outcomes, 1, Len(outcomes) - 1))),
         outcomes[Len(outcomes)])

\* request histories of a worker at the time of a snapshot
AggHistories ==
  { <<Response(200, 2, 100)>>,
    <<Response(500, 1, 1500), Response(404, 1, 900)>>,
    <<Response(500, 1, 1500), Response(500, 3, 900), TimeoutMessageError>>,
    <<SocketError, Response(404, 2, 12000000)>> }

\* the snapshots a worker emits after such a history, with or without a
\* request in flight
SnapshotPool ==
  { getSnapshot(0, IF inflight THEN executeRequestBegin(LoopAfter(os)) ELSE LoopAfter(os)) :
      os \in AggHistories, inflight \in BOOLEAN }

InitAgg ==
  /\ aggSnaps \in [1..NumSnaps -> SnapshotPool]
  /\ aggAdded = {}
  /\ aggCur = NewAggregator
  /\ HistIdle /\ RunIdle /\ CliIdle /\ RateIdle /\ LoopIdle
  /\ LifeIdle /\ BucketIdle /\ ShareIdle

AggAdd(i) ==
  /\ i \notin aggAdded
  /\ aggCur' = addSnapshot(aggCur, aggSnaps[i])
  /\ aggAdded' = aggAdded \cup {i}
  /\ UNCHANGED <<aggSnaps, histVars, runVars, cliVars, rateVars, loopVars, lifeVars, bucketVars, shareVars>>

NextAgg == \E i \in 1..NumSnaps : AggAdd(i)

SpecAgg == InitAgg /\ [][NextAgg]_vars

\* the aggregator after the snapshots fed in the order of the list
RECURSIVE AddInOrder(_)
AddInOrder(snaps) ==
  IF snaps = <<>> THEN NewAggregator
  ELSE addSnapshot(AddInOrder(SubSeq(snaps, 1, Len(snaps) - 1)), snaps[Len(snaps)])

\* C7: the aggregator is order-independent: once every snapshot of the list
\* has been fed, in whatever order, getMetrics (totals, error tallies, latency
\* statistics) and the histogram are the same as after feeding the list front
\* to back.
C7_AggregatorOrderIndependent ==
  aggAdded = 1..NumSnaps =>
    /\ getMetrics(aggCur) = getMetrics(AddInOrder(aggSnaps))
    /\ aggCur.histogram = AddInOrder(aggSnaps).histogram

\* every snapshot fed, in an order that left the status-code Map in another
\* insertion order than front to back, with failures tallied by status
C7_Witness ==
  /\ aggAdded = 1..NumSnaps
  /\ aggCur.statusCodes # AddInOrder(aggSnaps).statusCodes
  /\ Len(aggCur.statusCodes) >= 2
  /\ aggCur.timeouts > 0

-----------------------------------------------------------------------------
(* Spec: Orchestrator, worker threads and aggregator                       *)
(*                                                                         *)
(* Each thread runs one event-loop task at a time, so a handler is one     *)
(* action: it runs from the event that starts it to its next await on I/O  *)
(* or on a timer (an await on a settled promise does not let another task  *)
(* in).  Time is performance.now() in whole seconds.                       *)

\* bound: the clock stops at MaxTime, or at the deadline of the last loop running
MaxTime == 2
\* bound: requests the workers dispatch between them
MaxRequests == 2

\* cpus().length of the host
cpuCount == 2

\* config.rate: null (no limiter) or an aggregate rate; null is held as -1
NULL == -1

\* The configurations run: one worker or two (-c 3 on the two CPUs, and
\* -c 2), a rate limit, a URL that new URL() rejects, -c 0, -d 0, and a warmup.
\* duration and warmup are in seconds, timeout (--timeout) in milliseconds.
Configs ==
  { [connections |-> 0, duration |-> 1, rate |-> NULL, warmup |-> 0, timeout |-> 250, urlValid |-> TRUE],
    [connections |-> 1, duration |-> 0, rate |-> NULL, warmup |-> 0, timeout |-> 250, urlValid |-> TRUE],
    [connections |-> 1, duration |-> 1, rate |-> NULL, warmup |-> 0, timeout |-> 250, urlValid |-> TRUE],
    [connections |-> 1, duration |-> 1, rate |-> NULL, warmup |-> 1, timeout |-> 250, urlValid |-> TRUE],
    [connections |-> 3, duration |-> 1, rate |-> NULL, warmup |-> 0, timeout |-> 250, urlValid |-> TRUE],
    [connections |-> 1, duration |-> 1, rate |-> 3,    warmup |-> 0, timeout |-> 250, urlValid |-> TRUE],
    [connections |-> 2, duration |-> 1, rate |-> NULL, warmup |-> 0, timeout |-> 250, urlValid |-> FALSE] }

\* what client.execute() can settle with
Outcomes ==
  { Response(200, 1, 100), Response(500, 1, 1500), TimeoutMessageError, SocketError }

calculateWorkerCount(connections) == Min2(MAX_WORKERS, Min2(Max2(1, cpuCount), connections))

workerCount == calculateWorkerCount(cfg.connections)
WorkerIds == 0..(workerCount - 1)

\* the worker's state before the Orchestrator spawns it
NoWorker ==
  [pc |-> "unborn", loop |-> createInitialState, rate |-> NULL, endTime |-> 0,
   timerOn |-> FALSE, nextMetrics |-> 0]

NoResult == [assembled |-> FALSE]

Init ==
  /\ cfg \in Configs
  /\ now = 0
  /\ wk = [w \in WorkerIds |-> NoWorker]
  /\ toMain = [w \in WorkerIds |-> <<>>]
  /\ toWorker = [w \in WorkerIds |-> <<>>]
  /\ orch = [promise |-> "none", workers |-> {}, completedWorkers |-> 0,
             startTime |-> 0, phase |-> "idle", warmupEndTime |-> 0, mainEndTime |-> 0,
             result |-> NoResult]
  /\ agg = NewAggregator
  /\ issued = 0
  /\ received = [requests |-> 0, doneFrom |-> {}]
  /\ HistIdle /\ AggIdle /\ CliIdle /\ RateIdle /\ LoopIdle
  /\ LifeIdle /\ BucketIdle /\ ShareIdle

Others == <<histVars, aggVars, cliVars, rateVars, loopVars, lifeVars, bucketVars, shareVars>>

\* LifecycleManager.start at time t, for new LifecycleManager(duration, warmup)
lifecycleStart(durationSec, warmupSec, t) ==
  [phase |-> IF warmupSec > 0 THEN "warmup" ELSE "running",
   warmupEndTime |-> t + warmupSec,
   mainEndTime |-> t + warmupSec + durationSec]

\* Orchestrator.run with lifecycle.start() and spawnWorkers()
OrchRun ==
  /\ orch.promise = "none"
  /\ orch' = [orch EXCEPT !.promise = "pending",
                          !.startTime = now,
                          !.phase = lifecycleStart(cfg.duration, cfg.warmup, now).phase,
                          !.warmupEndTime =
                             lifecycleStart(cfg.duration, cfg.warmup, now).warmupEndTime,
                          !.mainEndTime =
                             lifecycleStart(cfg.duration, cfg.warmup, now).mainEndTime,
                          !.workers = WorkerIds]
  /\ wk' = [w \in WorkerIds |-> [NoWorker EXCEPT !.pc = "booting"]]
  /\ UNCHANGED <<cfg, now, toMain, toWorker, agg, issued, received, Others>>

\* worker.ts top level: parentPort.on('message'), then sendMessage(ready)
WorkerBoot(w) ==
  /\ wk[w].pc = "booting"
  /\ wk' = [wk EXCEPT ![w].pc = "waiting"]
  /\ toMain' = [toMain EXCEPT ![w] = Append(@, [type |-> "ready", workerId |-> w])]
  /\ UNCHANGED <<cfg, now, toWorker, orch, agg, issued, received, Others>>

\* a loop head that sends a second request without awaiting the first (mutant)
LoopHeadNoAwait(r) ==
  IF r.loop.running /\ now < r.endTime
    THEN IF issued < MaxRequests
           THEN {[r EXCEPT !.pc = "inflight",
                           !.loop = executeRequestBegin(executeRequestBegin(@))]}
           ELSE {}
    ELSE {[r EXCEPT !.pc = "closing", !.timerOn = FALSE]}

\* The head of RequestLoop.run's while loop, from the loop test to the next
\* await on I/O or a timer.  The results are the states the worker can be left
\* in.  acquire() returns at once when a token is there and sleeps otherwise;
\* which of the two depends on times below the clock's grain, so both are given.
LoopHead(r) ==
  IF r.loop.running /\ now < r.endTime
    THEN IF issued < MaxRequests
           THEN (IF r.rate # NULL THEN {[r EXCEPT !.pc = "sleeping"]} ELSE {})
                \cup {[r EXCEPT !.pc = "inflight", !.loop = executeRequestBegin(@)]}
           ELSE {}
    ELSE {[r EXCEPT !.pc = "closing", !.timerOn = FALSE]}

\* run() after acquire() slept: refill, take the token, test running, execute
AfterSleep(r) ==
  IF ~r.loop.running
    THEN {[r EXCEPT !.pc = "closing", !.timerOn = FALSE]}
    ELSE IF issued < MaxRequests
           THEN {[r EXCEPT !.pc = "inflight", !.loop = executeRequestBegin(@)]}
           ELSE {}

\* the first pass of the loop with a limiter whose bucket starts empty, so
\* that the first acquire() waits for a refill (mutant)
FirstLoopHeadEmptyBucket(r) ==
  IF r.rate # NULL /\ r.loop.running /\ now < r.endTime
    THEN {[r EXCEPT !.pc = "sleeping"]}
    ELSE LoopHead(r)

\* The first pass of the loop, in the task that handles 'start': the limiter
\* was constructed in this task with tokens = ratePerSecond, at least 1, so
\* the first acquire() takes a token and does not sleep.
FirstLoopHead(r) == {x \in LoopHead(r) : x.pc # "sleeping"}

Dispatched(old, new) == new.loop.requests - old.loop.requests

startWorkerConfig(w) ==
  [id |-> w,
   connections |-> Ceil(cfg.connections, workerCount),
   duration |-> cfg.duration,
   rate |-> IF cfg.rate # NULL THEN Ceil(cfg.rate, workerCount) ELSE NULL,
   timeout |-> cfg.timeout,
   urlValid |-> cfg.urlValid]

\* handleMessage 'start': handleStart with a RequestLoop that constructs, then
\* run() up to its first await
WorkerOnStart(w) ==
  /\ wk[w].pc \in {"waiting", "finished"}
  /\ toWorker[w] # <<>> /\ Head(toWorker[w]).type = "start"
  /\ Head(toWorker[w]).config.urlValid
  /\ LET config == Head(toWorker[w]).config
         r0 == [pc |-> "running", loop |-> createInitialState,
                rate |-> IF config.rate # NULL /\ config.rate > 0 THEN config.rate ELSE NULL,
                endTime |-> now + config.duration,
                timerOn |-> TRUE,
                nextMetrics |-> now + METRICS_INTERVAL_MS \div 1000]
     IN \E r \in FirstLoopHead(r0) :
          /\ wk' = [wk EXCEPT ![w] = r]
          /\ issued' = issued + Dispatched(r0, r)
  /\ toWorker' = [toWorker EXCEPT ![w] = Tail(@)]
  /\ UNCHANGED <<cfg, now, toMain, orch, agg, received, Others>>

\* handleMessage 'start' when new RequestLoop(config) throws (new URL(config.url)
\* at loop.ts line 75): the rejection of handleStart is unhandled, the thread
\* dies, and the main thread gets its 'error' event and then 'exit' with code 1
WorkerStartThrows(w) ==
  /\ wk[w].pc \in {"waiting", "finished"}
  /\ toWorker[w] # <<>> /\ Head(toWorker[w]).type = "start"
  /\ ~Head(toWorker[w]).config.urlValid
  /\ wk' = [wk EXCEPT ![w] = [NoWorker EXCEPT !.pc = "crashed"]]
  /\ toWorker' = [toWorker EXCEPT ![w] = <<>>]
  /\ toMain' = [toMain EXCEPT ![w] = @ \o <<[type |-> "errorEvent"], [type |-> "exit", code |-> 1]>>]
  /\ UNCHANGED <<cfg, now, orch, agg, issued, received, Others>>

\* a stop that aborts the request in flight and goes straight to close() (mutant)
WorkerOnStopAborts(w) ==
  /\ wk[w].pc \in {"waiting", "finished", "inflight", "sleeping", "closing"}
  /\ toWorker[w] # <<>> /\ Head(toWorker[w]).type = "stop"
  /\ wk' = [wk EXCEPT ![w].loop.running =
                 IF wk[w].pc \in {"inflight", "sleeping", "closing"} THEN FALSE ELSE @,
               ![w].pc = IF @ \in {"inflight", "sleeping"} THEN "closing" ELSE @,
               ![w].timerOn = IF wk[w].pc \in {"inflight", "sleeping"} THEN FALSE ELSE @]
  /\ toWorker' = [toWorker EXCEPT ![w] = Tail(@)]
  /\ UNCHANGED <<cfg, now, toMain, orch, agg, issued, received, Others>>

\* handleMessage 'stop': handleStop
WorkerOnStop(w) ==
  /\ wk[w].pc \in {"waiting", "finished", "inflight", "sleeping", "closing"}
  /\ toWorker[w] # <<>> /\ Head(toWorker[w]).type = "stop"
  /\ wk' = [wk EXCEPT ![w].loop.running =
                 IF wk[w].pc \in {"inflight", "sleeping", "closing"} THEN FALSE ELSE @]
  /\ toWorker' = [toWorker EXCEPT ![w] = Tail(@)]
  /\ UNCHANGED <<cfg, now, toMain, orch, agg, issued, received, Others>>

\* client.execute() settles: the rest of executeRequest, then the loop head
RequestSettles(w, outcome) ==
  /\ wk[w].pc = "inflight"
  /\ LET r0 == [wk[w] EXCEPT !.loop = executeRequestEnd(@, outcome)]
     IN \E r \in LoopHead(r0) :
          /\ wk' = [wk EXCEPT ![w] = r]
          /\ issued' = issued + Dispatched(r0, r)
  /\ UNCHANGED <<cfg, now, toMain, toWorker, orch, agg, received, Others>>

\* the limiter's sleep ends
SleepEnds(w) ==
  /\ wk[w].pc = "sleeping"
  /\ \E r \in AfterSleep(wk[w]) :
       /\ wk' = [wk EXCEPT ![w] = r]
       /\ issued' = issued + Dispatched(wk[w], r)
  /\ UNCHANGED <<cfg, now, toMain, toWorker, orch, agg, received, Others>>

\* the setInterval callback of startMetricsReporting
MetricsTimer(w) ==
  /\ wk[w].timerOn
  /\ now >= wk[w].nextMetrics
  /\ toMain' = [toMain EXCEPT ![w] =
                  Append(@, [type |-> "metrics", payload |-> getSnapshot(w, wk[w].loop)])]
  /\ wk' = [wk EXCEPT ![w].nextMetrics = now + METRICS_INTERVAL_MS \div 1000]
  /\ UNCHANGED <<cfg, now, toWorker, orch, agg, issued, received, Others>>

\* client.close() resolves: run() returns getSnapshot(), handleStart sends done
CloseResolves(w) ==
  /\ wk[w].pc = "closing"
  /\ toMain' = [toMain EXCEPT ![w] =
                  Append(@, [type |-> "done", payload |-> getSnapshot(w, wk[w].loop)])]
  /\ wk' = [wk EXCEPT ![w] = [NoWorker EXCEPT !.pc = "finished"]]
  /\ UNCHANGED <<cfg, now, toWorker, orch, agg, issued, received, Others>>

\* client.close() rejects: run() throws, handleStart sends error
CloseRejects(w) ==
  /\ wk[w].pc = "closing"
  /\ toMain' = [toMain EXCEPT ![w] = Append(@, [type |-> "error", workerId |-> w])]
  /\ wk' = [wk EXCEPT ![w] = [NoWorker EXCEPT !.pc = "finished"]]
  /\ UNCHANGED <<cfg, now, toWorker, orch, agg, issued, received, Others>>

\* The clock is read only by a running loop (its deadline, its interval), so
\* it is advanced only while some loop runs: its origin is the first loop start.
\* It runs on to MaxTime, and past MaxTime as far as the deadline of a loop
\* that runs: time does not stop before a deadline.
Tick ==
  /\ \E w \in WorkerIds : /\ wk[w].pc \in {"inflight", "sleeping"}
                          /\ now < MaxTime \/ now < wk[w].endTime
  /\ now' = now + 1
  /\ UNCHANGED <<cfg, wk, toMain, toWorker, orch, agg, issued, received, Others>>

-----------------------------------------------------------------------------
(* Orchestrator handlers (orchestrator.ts)                                 *)

Alive(w) == wk[w].pc \notin {"unborn", "crashed", "terminated"}

HeadIs(w, type) == toMain[w] # <<>> /\ Head(toMain[w]).type = type

\* Orchestrator.stop(): postMessage(stop) to every worker in the map; a
\* thread that has ended takes no message
stop(queues, workers) ==
  [w \in WorkerIds |->
     IF w \in workers /\ Alive(w) THEN Append(queues[w], [type |-> "stop"]) ELSE queues[w]]

\* rejectPromise is never called (mutant)
rejectDropped(promise) == promise

\* rejectPromise?.(error): a settled promise stays as it is
reject(promise) == IF promise = "pending" THEN "rejected" ELSE promise
resolve(promise) == IF promise = "pending" THEN "resolved" ELSE promise

\* handleWorkerComplete's test after completedWorkers++, never met (mutant)
allCompleteNever(completedWorkers) == completedWorkers > workerCount

\* handleWorkerComplete's test after completedWorkers++, met one done early (mutant)
allCompleteOneShort(completedWorkers) == completedWorkers >= workerCount - 1

\* handleWorkerComplete's test after completedWorkers++, met by the first done (mutant)
allCompleteAfterFirst(completedWorkers) == completedWorkers >= 1

\* handleWorkerComplete's test after completedWorkers++
allComplete(completedWorkers) == completedWorkers >= workerCount

\* the periodic snapshot is dropped (mutant)
onMetricsDropped(a, payload) == a

\* handleWorkerMessage, case 'metrics'
onMetrics(a, payload) == addSnapshot(a, payload)

\* finalize: endTime - this.startTime.  The clock of the model has a grain of
\* a second; performance.now() has moved on since run() by the time the
\* threads have started and answered, so the difference is at least 1 ms.
durationMs == Max2(1, (now - orch.startTime) * 1000)

\* finalize: Math.round((totalRequests / durationSec) * 100) / 100, as the
\* integer number of hundredths
rps(totalRequests, ms) == Floor(2 * totalRequests * 100000 + ms, 2 * ms)

\* finalize: the BenchResult built from const metrics = aggregator.getMetrics(),
\* one value
buildResult(a) ==
  CHOOSE result \in
    {[assembled |-> TRUE,
      requests |-> [total |-> metrics.totalRequests,
                    successful |-> metrics.successfulRequests,
                    failed |-> metrics.failedRequests],
      throughput |-> [rps |-> rps(metrics.totalRequests, durationMs)],
      totalBytes |-> metrics.totalBytes,
      latency |-> metrics.latency,
      errors |-> metrics.errors] : metrics \in {getMetrics(a)}} : TRUE

\* handleWorkerMessage, case 'ready': startWorker
OnReady(w) ==
  /\ HeadIs(w, "ready")
  /\ toMain' = [toMain EXCEPT ![w] = Tail(@)]
  /\ toWorker' = [toWorker EXCEPT ![w] =
                    IF w \in orch.workers /\ Alive(w)
                      THEN Append(@, [type |-> "start", config |-> startWorkerConfig(w)])
                      ELSE @]
  /\ UNCHANGED <<cfg, now, wk, orch, agg, issued, received, Others>>

\* handleWorkerMessage, case 'metrics'
OnMetrics(w) ==
  /\ HeadIs(w, "metrics")
  /\ toMain' = [toMain EXCEPT ![w] = Tail(@)]
  /\ agg' = onMetrics(agg, Head(toMain[w]).payload)
  /\ received' = [received EXCEPT !.requests = @ + Head(toMain[w]).payload.requests]
  /\ UNCHANGED <<cfg, now, wk, toWorker, orch, issued, Others>>

\* handleWorkerMessage, case 'done': addSnapshot, then handleWorkerComplete and,
\* when every worker has completed, finalize with cleanup (terminate() ends
\* each thread still in the map, whose 'exit' event follows)
OnDone(w) ==
  /\ HeadIs(w, "done")
  /\ agg' = addSnapshot(agg, Head(toMain[w]).payload)
  /\ received' = [received EXCEPT !.requests = @ + Head(toMain[w]).payload.requests,
                                  !.doneFrom = @ \cup {w}]
  /\ IF allComplete(orch.completedWorkers + 1)
       THEN /\ orch' = [orch EXCEPT !.completedWorkers = @ + 1,
                                    !.result = buildResult(agg'),
                                    !.workers = {},
                                    !.phase = "complete",
                                    !.promise = resolve(@)]
            /\ wk' = [v \in WorkerIds |->
                        IF v \in orch.workers /\ Alive(v)
                          THEN [NoWorker EXCEPT !.pc = "terminated"] ELSE wk[v]]
            /\ toWorker' = [v \in WorkerIds |->
                              IF v \in orch.workers /\ Alive(v) THEN <<>> ELSE toWorker[v]]
            /\ toMain' = [v \in WorkerIds |->
                            LET q == IF v = w THEN Tail(toMain[v]) ELSE toMain[v]
                            IN IF v \in orch.workers /\ Alive(v)
                                 THEN Append(q, [type |-> "exit", code |-> 1]) ELSE q]
       ELSE /\ orch' = [orch EXCEPT !.completedWorkers = @ + 1]
            /\ toMain' = [toMain EXCEPT ![w] = Tail(@)]
            /\ UNCHANGED <<wk, toWorker>>
  /\ UNCHANGED <<cfg, now, issued, Others>>

\* handleWorkerMessage, case 'error', and the thread's 'error' event:
\* handleWorkerError
OnError(w) ==
  /\ HeadIs(w, "error") \/ HeadIs(w, "errorEvent")
  /\ toMain' = [toMain EXCEPT ![w] = Tail(@)]
  /\ toWorker' = stop(toWorker, orch.workers)
  /\ orch' = [orch EXCEPT !.promise = reject(@)]
  /\ UNCHANGED <<cfg, now, wk, agg, issued, received, Others>>

\* the thread's 'exit' event: handleWorkerExit
OnExit(w) ==
  /\ HeadIs(w, "exit")
  /\ toMain' = [toMain EXCEPT ![w] = Tail(@)]
  /\ LET code == Head(toMain[w]).code
         left == orch.workers \ {w}
     IN IF code # 0 /\ orch.completedWorkers < workerCount
          THEN /\ toWorker' = stop(toWorker, left)
               /\ orch' = [orch EXCEPT !.workers = left, !.promise = reject(@)]
          ELSE /\ toWorker' = toWorker
               /\ orch' = [orch EXCEPT !.workers = left]
  /\ UNCHANGED <<cfg, now, wk, agg, issued, received, Others>>

Next ==
  \/ OrchRun
  \/ Tick
  \/ \E w \in WorkerIds : WorkerBoot(w)
  \/ \E w \in WorkerIds : WorkerOnStart(w)
  \/ \E w \in WorkerIds : WorkerStartThrows(w)
  \/ \E w \in WorkerIds : WorkerOnStop(w)
  \/ \E w \in WorkerIds, outcome \in Outcomes : RequestSettles(w, outcome)
  \/ \E w \in WorkerIds : SleepEnds(w)
  \/ \E w \in WorkerIds : MetricsTimer(w)
  \/ \E w \in WorkerIds : CloseResolves(w)
  \/ \E w \in WorkerIds : CloseRejects(w)
  \/ \E w \in WorkerIds : OnReady(w)
  \/ \E w \in WorkerIds : OnMetrics(w)
  \/ \E w \in WorkerIds : OnDone(w)
  \/ \E w \in WorkerIds : OnError(w)
  \/ \E w \in WorkerIds : OnExit(w)

Spec == Init /\ [][Next]_vars

-----------------------------------------------------------------------------
(* Properties of the BenchResult that Orchestrator.run() resolves with     *)

Resolved == orch.promise = "resolved"

Result == orch.result

\* C1: in every result, successful + failed = total, whatever the
\* interleaving of periodic snapshots with requests in flight.
C1_SuccessfulPlusFailedIsTotal ==
  Resolved => Result.requests.successful + Result.requests.failed = Result.requests.total

\* C2: in every result, timeouts + connectionErrors + the sum of the
\* byStatusCode counts equals the number of failed requests.
C2_ErrorBreakdownSumsToFailed ==
  Resolved =>
    LET errors == Result.errors
    IN errors.timeouts + errors.connectionErrors
         + SumOver(errors.byStatusCode, DOMAIN errors.byStatusCode)
       = Result.requests.failed

\* a result whose failures are of more than one kind
C2_Witness ==
  /\ Resolved
  /\ Result.errors.timeouts + Result.errors.connectionErrors > 0
  /\ DOMAIN Result.errors.byStatusCode # {}

\* C3: the result's requests.total is the number of requests actually
\* issued: each one is accumulated exactly once.
C3_TotalIsRequestsIssued ==
  Resolved => Result.requests.total = issued

\* C4: in every result's latency,
\* min <= p50 <= p75 <= p90 <= p95 <= p99 <= p999 <= max.
C4_PercentilesOrdered ==
  Resolved =>
    LET l == Result.latency
    IN /\ l.min <= l.p50 /\ l.p50 <= l.p75 /\ l.p75 <= l.p90 /\ l.p90 <= l.p95
       /\ l.p95 <= l.p99 /\ l.p99 <= l.p999 /\ l.p999 <= l.max

\* C5: the sum of snapshot.requests over all the snapshots the main thread
\* received, periodic and final, equals the result's requests.total.
C5_TotalIsSumOfSnapshots ==
  Resolved => Result.requests.total = received.requests

\* a result after a periodic snapshot that counted requests
C5_Witness ==
  /\ Resolved
  /\ received.requests > issued

\* C10: run() resolves only after every one of the N workers has reported
\* done, and the result includes each worker's done snapshot.
C10_ResolvesOnlyAfterAllDone ==
  Resolved =>
    /\ received.doneFrom = WorkerIds
    /\ orch.completedWorkers = workerCount
    /\ Result.assembled
    /\ Result.requests.total >= issued

\* a run of two workers that resolved after both sent requests
C10_Witness ==
  /\ Resolved
  /\ workerCount = 2
  /\ received.doneFrom = {0, 1}
  /\ issued = MaxRequests

-----------------------------------------------------------------------------
(* SpecCli: one invocation of the command line with at most one URL        *)
(* (cli/index.ts main, cli/flags.ts, cli/commands/run.ts runCommand)       *)

\* NaN, what parseFloat returns for a string that does not start with a number
NaN == -2

\* parseFloat on the option values tried, in hundredths
parseFloat(s) ==
  CASE s = "0"   -> 0
    [] s = "0.5" -> 50
    [] s = "1"   -> 100
    [] s = "1.5" -> 150
    [] OTHER     -> NaN

\* The command lines tried: -h, -v, no URL or one, the values given to --p99
\* (milliseconds) and --error-rate (a fraction), and -o <file>.  "" stands
\* for an option that is not on the command line.
CliArgs ==
  [help : BOOLEAN, version : BOOLEAN, urls : 0..1,
   p99 : {"", "0", "0.5", "1.5", "abc"},
   errorRate : {"", "0", "0.5", "1", "abc"},
   o : BOOLEAN]

\* parseFlags: the flags main and flagsToConfig read.  p99Threshold and
\* errorRateThreshold stay null unless their option is given.
parseFlags(args) ==
  [help |-> args.help, version |-> args.version, urls |-> args.urls,
   p99Threshold |-> IF args.p99 = "" THEN NULL ELSE parseFloat(args.p99),
   errorRateThreshold |-> IF args.errorRate = "" THEN NULL ELSE parseFloat(args.errorRate),
   outputFile |-> args.o]

NoThresholds == [defined |-> FALSE, p99 |-> NULL, errorRate |-> NULL]
NullConfig == [isNull |-> TRUE, thresholds |-> NoThresholds, outputFile |-> FALSE]

\* flagsToConfig: null without a URL; config.thresholds is set when either
\* flag is not null, with the value parseFloat gave.  thresholds.p99 is in
\* hundredths of a millisecond, like result.latency.p99; thresholds.errorRate
\* is in hundredths; NULL stands for undefined.
flagsToConfig(flags) ==
  IF flags.urls = 0
    THEN NullConfig
    ELSE [isNull |-> FALSE,
          thresholds |->
            IF flags.p99Threshold # NULL \/ flags.errorRateThreshold # NULL
              THEN [defined |-> TRUE, p99 |-> flags.p99Threshold,
                    errorRate |-> flags.errorRateThreshold]
              ELSE NoThresholds,
          outputFile |-> flags.outputFile]

\* The fields of the BenchResult that checkThresholds reads
CliResults ==
  { [assembled |-> TRUE,
     latency |-> [p99 |-> p],
     requests |-> [total |-> c.total, failed |-> c.failed]] :
       p \in {0, 50, 250},
       c \in {d \in [total : 0..2, failed : 0..2] : d.failed <= d.total} }

\* checkThresholds with >= in place of > (mutant)
checkThresholdsInclusive(result, config) ==
  IF ~config.thresholds.defined
    THEN [code |-> EXIT_SUCCESS, error |-> "none"]
  ELSE IF /\ config.thresholds.p99 # NULL
          /\ config.thresholds.p99 # NaN
          /\ result.latency.p99 >= config.thresholds.p99
    THEN [code |-> EXIT_THRESHOLD_EXCEEDED, error |-> "P99 latency exceeds threshold"]
  ELSE IF /\ config.thresholds.errorRate # NULL
          /\ result.requests.total > 0
          /\ config.thresholds.errorRate # NaN
          /\ result.requests.failed * 100 >= config.thresholds.errorRate * result.requests.total
    THEN [code |-> EXIT_THRESHOLD_EXCEEDED, error |-> "Error rate exceeds threshold"]
  ELSE [code |-> EXIT_SUCCESS, error |-> "none"]

\* checkThresholds: the exit code and the line it writes with error().
\* failed / total > errorRate is compared as failed * 100 > errorRate * total;
\* a comparison with NaN is false.
checkThresholds(result, config) ==
  IF ~config.thresholds.defined
    THEN [code |-> EXIT_SUCCESS, error |-> "none"]
  ELSE IF /\ config.thresholds.p99 # NULL
          /\ config.thresholds.p99 # NaN
          /\ result.latency.p99 > config.thresholds.p99
    THEN [code |-> EXIT_THRESHOLD_EXCEEDED, error |-> "P99 latency exceeds threshold"]
  ELSE IF /\ config.thresholds.errorRate # NULL
          /\ result.requests.total > 0
          /\ config.thresholds.errorRate # NaN
          /\ result.requests.failed * 100 > config.thresholds.errorRate * result.requests.total
    THEN [code |-> EXIT_THRESHOLD_EXCEEDED, error |-> "Error rate exceeds threshold"]
  ELSE [code |-> EXIT_SUCCESS, error |-> "none"]

\* cli.probe is the state of the reachability probe, cli.started whether
\* runBenchmark was called (which spawns the workers before it returns its
\* promise), cli.rendered whether reporter.report was called, cli.written
\* whether writeFileSync returned, cli.reported whether the report was
\* rendered and, with -o, written.
InitCli ==
  /\ cli \in [pc : {"main"}, args : CliArgs, config : {NullConfig}, result : {NoResult},
              probe : {"none"}, started : {FALSE}, rendered : {FALSE}, written : {FALSE},
              reported : {FALSE}, error : {"none"}, exitCode : {NULL}]
  /\ HistIdle /\ AggIdle /\ RunIdle /\ RateIdle /\ LoopIdle
  /\ LifeIdle /\ BucketIdle /\ ShareIdle

CliOthers == <<histVars, aggVars, runVars, rateVars, loopVars, lifeVars, bucketVars, shareVars>>

\* process.exit(code) after error(message)
exit(c, code, message) == [c EXCEPT !.pc = "exited", !.error = message, !.exitCode = code]

\* main that goes on to runCommand whether or not a URL was given (mutant)
mainWithoutUrlCheck(c) ==
  LET flags == parseFlags(c.args)
  IN IF flags.help \/ flags.version
       THEN exit(c, EXIT_SUCCESS, "none")
       ELSE [c EXCEPT !.pc = "probing", !.config = flagsToConfig(flags),
                      !.probe = "pending"]

\* main up to its first await, which is in checkReachability: help and
\* version exit 0, no URL and a null config exit 2, anything else goes on to
\* runCommand and its probe
main(c) ==
  LET flags == parseFlags(c.args)
      config == flagsToConfig(flags)
  IN IF flags.help \/ flags.version
       THEN exit(c, EXIT_SUCCESS, "none")
     ELSE IF flags.urls = 0
       THEN exit(c, EXIT_ERROR, "No URL provided")
     ELSE IF config.isNull
       THEN exit(c, EXIT_ERROR, "Invalid configuration")
     ELSE [c EXCEPT !.pc = "probing", !.config = config, !.probe = "pending"]

MainRuns ==
  /\ cli.pc = "main"
  /\ cli' = main(cli)
  /\ UNCHANGED CliOthers

\* an unreachable target after which runCommand runs the benchmark all the same (mutant)
ProbeFailsBenchmarkRuns ==
  /\ cli.pc = "probing"
  /\ cli' = [cli EXCEPT !.pc = "benchmarking", !.probe = "unreachable", !.started = TRUE]
  /\ UNCHANGED CliOthers

\* checkReachability returns reachable: false
ProbeFails ==
  /\ cli.pc = "probing"
  /\ cli' = [exit(cli, EXIT_ERROR, "Target not reachable") EXCEPT !.probe = "unreachable"]
  /\ UNCHANGED CliOthers

\* checkReachability returns reachable: true; runBenchmark is called
ProbeSucceeds ==
  /\ cli.pc = "probing"
  /\ cli' = [cli EXCEPT !.pc = "benchmarking", !.probe = "reachable", !.started = TRUE]
  /\ UNCHANGED CliOthers

\* runBenchmark(config) rejects: the catch block
BenchmarkRejects ==
  /\ cli.pc = "benchmarking"
  /\ cli' = exit(cli, EXIT_ERROR, "message")
  /\ UNCHANGED CliOthers

\* runBenchmark(config) resolves with a result; reporter.report(result) is called
BenchmarkResolves(result) ==
  /\ cli.pc = "benchmarking"
  /\ cli' = [cli EXCEPT !.pc = "reporting", !.result = result, !.rendered = TRUE]
  /\ UNCHANGED CliOthers

\* reporter.report and writeFileSync return: checkThresholds gives the code
ReportWritten ==
  /\ cli.pc = "reporting"
  /\ LET checked == checkThresholds(cli.result, cli.config)
     IN cli' = [exit(cli, checked.code, checked.error)
                  EXCEPT !.reported = TRUE, !.written = cli.config.outputFile]
  /\ UNCHANGED CliOthers

\* writeFileSync(config.outputFile, ...) throws: the catch block
ReportThrows ==
  /\ cli.pc = "reporting"
  /\ cli.config.outputFile
  /\ cli' = exit(cli, EXIT_ERROR, "message")
  /\ UNCHANGED CliOthers

NextCli ==
  \/ MainRuns
  \/ ProbeFails
  \/ ProbeSucceeds
  \/ BenchmarkRejects
  \/ \E result \in CliResults : BenchmarkResolves(result)
  \/ ReportWritten
  \/ ReportThrows

SpecCli == InitCli /\ [][NextCli]_vars

\* the p99 threshold is set and the observed p99 strictly exceeds it
\* (nothing exceeds NaN)
P99Exceeded ==
  /\ cli.config.thresholds.defined
  /\ cli.config.thresholds.p99 \notin {NULL, NaN}
  /\ cli.result.latency.p99 > cli.config.thresholds.p99

\* the error-rate threshold is set and failed / total strictly exceeds it
\* (no quotient, so no excess, when total is 0)
ErrorRateExceeded ==
  /\ cli.config.thresholds.defined
  /\ cli.config.thresholds.errorRate \notin {NULL, NaN}
  /\ cli.result.requests.total > 0
  /\ cli.result.requests.failed * 100
       > cli.config.thresholds.errorRate * cli.result.requests.total

ProducedResult == cli.pc = "exited" /\ cli.result.assembled

\* C9 as stated: once the run has produced a result, the exit code is 1 iff
\* a set p99 threshold is strictly exceeded or a set error-rate threshold is
\* strictly exceeded, and 0 otherwise.
C9_ExitCodeAfterResult ==
  ProducedResult =>
    cli.exitCode = IF P99Exceeded \/ ErrorRateExceeded
                     THEN EXIT_THRESHOLD_EXCEEDED ELSE EXIT_SUCCESS

\* C9 amended: once the run has produced a result and the report has been
\* rendered and written without a throw, the exit code is 1 iff a set p99
\* threshold is strictly exceeded or a set error-rate threshold is strictly
\* exceeded, and 0 otherwise; equality passes; p99 is checked first (its line
\* is the one written when both are exceeded).  When writing the report
\* throws, the exit code is 2.
C9_ExitCodeAfterReport ==
  ProducedResult =>
    IF cli.reported
      THEN /\ cli.exitCode = IF P99Exceeded \/ ErrorRateExceeded
                               THEN EXIT_THRESHOLD_EXCEEDED ELSE EXIT_SUCCESS
           /\ P99Exceeded => cli.error = "P99 latency exceeds threshold"
           /\ ~P99Exceeded /\ ErrorRateExceeded => cli.error = "Error rate exceeds threshold"
           /\ ~P99Exceeded /\ ~ErrorRateExceeded => cli.error = "none"
      ELSE cli.exitCode = EXIT_ERROR

\* a report written with p99 equal to its threshold and the error rate over its own
C9_Witness ==
  /\ ProducedResult
  /\ cli.reported
  /\ cli.result.latency.p99 = cli.config.thresholds.p99
  /\ ErrorRateExceeded
  /\ cli.exitCode = EXIT_THRESHOLD_EXCEEDED

-----------------------------------------------------------------------------
(* Failure handling of the Orchestrator                                    *)

Rejected == orch.promise = "rejected"

StopMessage == [type |-> "stop"]

\* this step is the main thread taking, from worker w, an error message, a
\* thread 'error' event, or an 'exit' with a non-zero code while fewer than N
\* workers have completed
FailureHandled(w) ==
  /\ toMain[w] # <<>>
  /\ toMain'[w] = Tail(toMain[w])
  /\ \/ Head(toMain[w]).type \in {"error", "errorEvent"}
     \/ /\ Head(toMain[w]).type = "exit"
        /\ Head(toMain[w]).code # 0
        /\ orch.completedWorkers < workerCount

\* C11: when a worker sends error, raises a thread error or exits with a
\* non-zero code before all N workers have completed, the orchestrator posts
\* stop to every worker it still holds and run() is rejected; a rejected run
\* never carries a result.
C11_FailureStopsWorkersAndRejects ==
  /\ [][\A w \in WorkerIds :
          FailureHandled(w) /\ orch.completedWorkers < workerCount =>
            /\ orch'.promise = "rejected"
            /\ \A v \in orch'.workers :
                 Alive(v) => /\ toWorker'[v] # <<>>
                             /\ toWorker'[v][Len(toWorker'[v])] = StopMessage
                             /\ Len(toWorker'[v]) = Len(toWorker[v]) + 1]_vars
  /\ [](Rejected => ~Result.assembled)

\* a run of two workers rejected while a worker still held has stop queued
C11_Witness ==
  /\ Rejected
  /\ workerCount = 2
  /\ \E v \in orch.workers : Alive(v) /\ toWorker[v] # <<>> /\ Head(toWorker[v]) = StopMessage

Settled == orch.promise \in {"resolved", "rejected"}

\* C12: once run() has settled, by a result or by a rejection, every spawned
\* worker has terminated: it exited on its own or the orchestrator
\* terminated it.
C12_WorkersTerminatedWhenSettled ==
  Settled => \A w \in WorkerIds : ~Alive(w)

\* D + 2 * T after the start of the run, in milliseconds on the model's clock
HardDeadlineMs == (orch.startTime + cfg.duration) * 1000 + 2 * cfg.timeout

\* C13: a hard deadline bounds every run: past D + 2 * T the orchestrator has
\* terminated any worker that has not reported done, so run() has settled.
C13_SettledByHardDeadline ==
  orch.promise # "none" /\ now * 1000 > HardDeadlineMs => Settled

-----------------------------------------------------------------------------
(* SpecRate: the request loops of one run under a rate limit               *)
(* (scheduler/rate-limiter.ts, worker/loop.ts).  rl.now is performance.now() *)
(* in whole seconds: every step falls on a whole second, a request may     *)
(* settle within the second it was sent in, and a sleep that would end     *)
(* inside a second ends at the next one (a timer may fire late).           *)

\* bound: the clock of SpecRate stops at MaxRateTime
MaxRateTime == 3

\* config.rate, config.connections and config.duration (seconds) of the runs
RateConfigs == [rate : {1, 2, 3}, connections : {1, 2}, duration : {1, 2}]

\* new RateLimiter(ratePerSecond) at time t
NewRateLimiter(ratePerSecond, t) ==
  [ratePerSecond |-> ratePerSecond, tokens |-> ratePerSecond, lastRefill |-> t]

\* RateLimiter.refill at time t (elapsed is in seconds here)
refill(l, t) ==
  LET elapsed == t - l.lastRefill
      tokensToAdd == elapsed * l.ratePerSecond
  IN IF tokensToAdd >= 1
       THEN [l EXCEPT !.tokens = Min2(l.ratePerSecond, l.tokens + tokensToAdd),
                      !.lastRefill = t]
       ELSE l

\* RateLimiter.acquire at time t, up to its return or its sleep: the limiter
\* left behind, and the time the sleep ends at (NULL when it does not sleep).
\* waitTime is intervalMs - (elapsed ms % intervalMs), intervalMs = 1000 / rate.
acquire(l, t) ==
  LET l1 == refill(l, t)
      intervalMs == 1000 \div l1.ratePerSecond
      waitTime == intervalMs - (((t - l1.lastRefill) * 1000) % intervalMs)
  IN IF l1.tokens >= 1
       THEN [limiter |-> [l1 EXCEPT !.tokens = @ - 1], wakeAt |-> NULL]
       ELSE [limiter |-> l1, wakeAt |-> t + Ceil(Max2(0, waitTime), 1000)]

\* acquire after its sleep: refill, then tokens -= 1
acquireAfterSleep(l, t) ==
  LET l1 == refill(l, t)
  IN [l1 EXCEPT !.tokens = @ - 1]

RateWorkerCount == calculateWorkerCount(rl.cfg.connections)
RateWorkerIds == 0..(RateWorkerCount - 1)

\* startWorker's ratePerWorker
ratePerWorker == Ceil(rl.cfg.rate, RateWorkerCount)

InitRate ==
  /\ rl \in [cfg : RateConfigs, now : {0},
             w : {[i \in 0..(calculateWorkerCount(c) - 1) |->
                     [pc |-> "waiting", limiter |-> NewRateLimiter(1, 0),
                      endTime |-> 0, wakeAt |-> NULL, requests |-> 0]] : c \in {1, 2}}]
  /\ DOMAIN rl.w = 0..(calculateWorkerCount(rl.cfg.connections) - 1)
  /\ HistIdle /\ AggIdle /\ RunIdle /\ CliIdle /\ LoopIdle
  /\ LifeIdle /\ BucketIdle /\ ShareIdle

RateOthers == <<histVars, aggVars, runVars, cliVars, loopVars, lifeVars, bucketVars, shareVars>>

\* the head of RequestLoop.run's while loop for a loop that was not stopped
RateLoopHead(r, t) ==
  IF t < r.endTime
    THEN LET a == acquire(r.limiter, t)
         IN IF a.wakeAt = NULL
              THEN [r EXCEPT !.pc = "inflight", !.limiter = a.limiter,
                             !.requests = @ + 1]
              ELSE [r EXCEPT !.pc = "sleeping", !.limiter = a.limiter,
                             !.wakeAt = a.wakeAt]
    ELSE [r EXCEPT !.pc = "closed"]

\* handleStart: new RequestLoop(config) with its limiter, then run()
RateStart(i) ==
  /\ rl.w[i].pc = "waiting"
  /\ LET r0 == [rl.w[i] EXCEPT !.limiter = NewRateLimiter(ratePerWorker, rl.now),
                               !.endTime = rl.now + rl.cfg.duration]
     IN rl' = [rl EXCEPT !.w[i] = RateLoopHead(r0, rl.now)]
  /\ UNCHANGED RateOthers

\* the limiter's sleep ends: the rest of acquire, the running test (the loop
\* was not stopped), executeRequest
RateSleepEnds(i) ==
  /\ rl.w[i].pc = "sleeping"
  /\ rl.now >= rl.w[i].wakeAt
  /\ rl' = [rl EXCEPT !.w[i] = [@ EXCEPT !.pc = "inflight",
                                         !.limiter = acquireAfterSleep(@, rl.now),
                                         !.wakeAt = NULL,
                                         !.requests = @ + 1]]
  /\ UNCHANGED RateOthers

\* client.execute() settles, then the loop head
RateRequestSettles(i) ==
  /\ rl.w[i].pc = "inflight"
  /\ rl' = [rl EXCEPT !.w[i] = RateLoopHead(@, rl.now)]
  /\ UNCHANGED RateOthers

RateTick ==
  /\ rl.now < MaxRateTime
  /\ rl' = [rl EXCEPT !.now = @ + 1]
  /\ UNCHANGED RateOthers

NextRate ==
  \/ RateTick
  \/ \E i \in RateWorkerIds : RateStart(i)
  \/ \E i \in RateWorkerIds : RateSleepEnds(i)
  \/ \E i \in RateWorkerIds : RateRequestSettles(i)

SpecRate == InitRate /\ [][NextRate]_vars

\* requests issued by all the workers of the run
RateIssued == SumOver([i \in RateWorkerIds |-> rl.w[i].requests], RateWorkerIds)

\* C14: with an aggregate rate R set, the workers of a run of D seconds issue
\* at most R * (D + 1) requests between them, for every C, N and R >= 1.
C14_RequestsWithinRate ==
  RateIssued <= rl.cfg.rate * (rl.cfg.duration + 1)

-----------------------------------------------------------------------------
(* SpecLoop: one RequestLoop sending requests one after the other           *)
(* (worker/loop.ts, executeRequest).  lp.before and lp.outcome record the   *)
(* state before the last settlement and what the request settled with.      *)

\* bound: requests the loop sends
MaxLoopRequests == 2

NoOutcome ==
  [kind |-> "none", statusCode |-> 0, bytes |-> 0, latencyUs |-> 0,
   isError |-> FALSE, name |-> "", messageIncludesTimeout |-> FALSE]

\* what client.execute() can settle with: statuses inside and outside the
\* success set, with and without a body, and the throws
LoopOutcomes ==
  { Response(code, bytes, 100) :
      code \in {200, 201, 202, 203, 204, 301, 302, 303, 304, 404, 500},
      bytes \in {0, 3} }
  \cup { TimeoutNamedError, TimeoutMessageError, HeadersTimeoutError, BodyTimeoutError,
         SocketError, ThrownValue }

InitLoop ==
  /\ lp = [pc |-> "idle", state |-> createInitialState,
           before |-> createInitialState, outcome |-> NoOutcome]
  /\ HistIdle /\ AggIdle /\ RunIdle /\ CliIdle /\ RateIdle
  /\ LifeIdle /\ BucketIdle /\ ShareIdle

LoopOthers == <<histVars, aggVars, runVars, cliVars, rateVars, lifeVars, bucketVars, shareVars>>

\* executeRequest up to its await
LoopDispatch ==
  /\ lp.pc = "idle"
  /\ lp.state.requests < MaxLoopRequests
  /\ lp' = [lp EXCEPT !.pc = "inflight", !.state = executeRequestBegin(@)]
  /\ UNCHANGED LoopOthers

\* client.execute() settles: the rest of executeRequest
LoopSettles(outcome) ==
  /\ lp.pc = "inflight"
  /\ lp' = [pc |-> "idle", state |-> executeRequestEnd(lp.state, outcome),
            before |-> lp.state, outcome |-> outcome]
  /\ UNCHANGED LoopOthers

NextLoop ==
  \/ LoopDispatch
  \/ \E outcome \in LoopOutcomes : LoopSettles(outcome)

SpecLoop == InitLoop /\ [][NextLoop]_vars

\* the loop has settled a request and not yet sent the next
JustSettled == lp.pc = "idle" /\ lp.outcome.kind # "none"

\* C15: for a response received intact, the request is counted successful iff
\* its status is one of 200, 201, 202, 204, 301, 302, 304; otherwise it is
\* counted failed and byStatusCode[status] grows by exactly one.  Either way
\* its latency is recorded, its bytes are added, and exactly one of
\* successful and failed grows, by one; nothing else changes.
C15_ResponseCountedBySuccessSet ==
  JustSettled /\ lp.outcome.kind = "response" =>
    LET b == lp.before
        a == lp.state
        o == lp.outcome
        codes == DOMAIN a.errors.byStatusCode \cup DOMAIN b.errors.byStatusCode
    IN /\ a.latencies = Append(b.latencies, o.latencyUs)
       /\ a.bytes = b.bytes + o.bytes
       /\ a.requests = b.requests
       /\ a.errors.timeouts = b.errors.timeouts
       /\ a.errors.connectionErrors = b.errors.connectionErrors
       /\ IF o.statusCode \in {200, 201, 202, 204, 301, 302, 304}
            THEN /\ a.successful = b.successful + 1
                 /\ a.failed = b.failed
                 /\ \A c \in codes :
                      BucketAt(a.errors.byStatusCode, c) = BucketAt(b.errors.byStatusCode, c)
            ELSE /\ a.successful = b.successful
                 /\ a.failed = b.failed + 1
                 /\ \A c \in codes :
                      BucketAt(a.errors.byStatusCode, c)
                        = BucketAt(b.errors.byStatusCode, c)
                            + (IF c = o.statusCode THEN 1 ELSE 0)

\* a second 303 in a row, and a 301 with a body after a failure
C15_Witness ==
  \/ /\ JustSettled
     /\ lp.outcome.statusCode = 303
     /\ BucketAt(lp.state.errors.byStatusCode, 303) = 2
  \/ /\ JustSettled
     /\ lp.outcome.statusCode = 301
     /\ lp.outcome.bytes = 3
     /\ lp.state.failed = 1 /\ lp.state.successful = 1

-----------------------------------------------------------------------------
(* Request-layer errors (SpecLoop, Spec)                                   *)

\* a timeout error: the configured timeout tripped while waiting for the
\* headers or the body, or the error names itself a timeout
IsTimeoutError(err) ==
  /\ err.isError
  /\ \/ err.name \in {"TimeoutError", "HeadersTimeoutError", "BodyTimeoutError"}
     \/ err.messageIncludesTimeout

\* C16: a request that throws adds one to failed and to exactly one of
\* errors.timeouts (iff the error is a timeout error) and
\* errors.connectionErrors, and records no latency and no bytes.
C16_ThrowCountedByKind ==
  JustSettled /\ lp.outcome.kind = "throw" =>
    LET b == lp.before
        a == lp.state
        t == IF IsTimeoutError(lp.outcome) THEN 1 ELSE 0
    IN /\ a.failed = b.failed + 1
       /\ a.successful = b.successful
       /\ a.errors.timeouts = b.errors.timeouts + t
       /\ a.errors.connectionErrors = b.errors.connectionErrors + (1 - t)
       /\ a.errors.byStatusCode = b.errors.byStatusCode
       /\ a.latencies = b.latencies
       /\ a.bytes = b.bytes

\* the throws client.execute() can settle with in Spec
ThrownOutcomes == {o \in Outcomes : o.kind = "throw"}

\* In a run a request that throws is never fatal: the step in which it
\* settles adds one to failed and to one of the two error tallies, sends
\* nothing to the main thread and leaves run()'s promise as it was; the loop
\* goes on to its next request while it is running and before its deadline,
\* and otherwise to its normal end.
ThrowIsNeverFatal ==
  [][\A w \in WorkerIds : \A o \in ThrownOutcomes :
       RequestSettles(w, o) =>
         LET b == wk[w].loop
             a == wk'[w].loop
         IN /\ a.failed = b.failed + 1
            /\ a.successful = b.successful
            /\ a.errors.timeouts + a.errors.connectionErrors
                 = b.errors.timeouts + b.errors.connectionErrors + 1
            /\ a.latencies = b.latencies
            /\ a.running = b.running
            /\ toMain' = toMain
            /\ orch' = orch
            /\ IF b.running /\ now < wk[w].endTime
                 THEN /\ wk'[w].pc \in {"inflight", "sleeping"}
                      /\ wk'[w].pc = "inflight" => a.requests = b.requests + 1
                 ELSE wk'[w].pc = "closing"]_vars

-----------------------------------------------------------------------------
(* Configuration and probe errors of the command line (SpecCli)            *)

\* C17: when the reachability probe fails, the command has exited with code
\* 2 without calling runBenchmark (so without spawning a worker), without
\* calling a reporter and without writing the output file; runBenchmark is
\* called only after the probe succeeded.
C17_ProbeFailureExitsBeforeBenchmark ==
  /\ cli.probe = "unreachable" =>
       /\ cli.pc = "exited"
       /\ cli.exitCode = EXIT_ERROR
       /\ ~cli.started /\ ~cli.rendered /\ ~cli.written
  /\ cli.started => cli.probe = "reachable"

\* a failed probe of a command that had thresholds and an output file
C17_Witness ==
  /\ cli.probe = "unreachable"
  /\ cli.pc = "exited"
  /\ cli.config.outputFile
  /\ cli.config.thresholds.defined

\* a command line without -h, -v and without a URL
NoUrlGiven == cli.args.urls = 0 /\ ~cli.args.help /\ ~cli.args.version

\* C18: with no URL on the command line (and neither help nor version asked
\* for) the command exits with code 2 before the probe and before
\* runBenchmark is called.
C18_NoUrlExitsBeforeProbe ==
  NoUrlGiven =>
    /\ cli.pc \in {"main", "exited"}
    /\ cli.pc = "exited" => cli.exitCode = EXIT_ERROR
    /\ cli.probe = "none"
    /\ ~cli.started

\* a command line with options and no URL that has exited
C18_Witness ==
  /\ NoUrlGiven
  /\ cli.args.p99 = "1.5" /\ cli.args.o
  /\ cli.pc = "exited"
  /\ cli.exitCode = EXIT_ERROR

\* --p99 or --error-rate is given a value that is not a number
ThresholdNotNumeric ==
  \/ cli.args.p99 # "" /\ parseFloat(cli.args.p99) = NaN
  \/ cli.args.errorRate # "" /\ parseFloat(cli.args.errorRate) = NaN

\* C19: a threshold value that is not a number is a configuration error:
\* the command exits with code 2 before runBenchmark is called.
C19_BadThresholdExitsBeforeBenchmark ==
  ThresholdNotNumeric /\ ~cli.args.help /\ ~cli.args.version =>
    /\ ~cli.started
    /\ cli.pc = "exited" => cli.exitCode = EXIT_ERROR

-----------------------------------------------------------------------------
(* A run without connections (Spec)                                        *)

\* C20: a configuration with fewer than one connection is invalid: run()
\* rejects it, and never waits with no worker spawned.
C20_NoConnectionsRejected ==
  cfg.connections < 1 /\ orch.promise # "none" => Rejected

-----------------------------------------------------------------------------
(* The result of a run without latency samples (Spec)                      *)

\* C21: when no latency sample has been recorded, min, max, mean, stddev and
\* every percentile of the result are 0; rps is 0 when requests.total is 0.
C21_EmptyHistogramReportsZero ==
  /\ Resolved /\ getCount(agg.histogram) = 0 =>
       /\ \A k \in {"min", "max", "mean", "p50", "p75", "p90", "p95", "p99", "p999"} :
            Result.latency[k] = 0
       /\ getStdDevSign(agg.histogram) = 0
  /\ Resolved /\ Result.requests.total = 0 => Result.throughput.rps = 0

\* a run that resolved without sending a request
C21_Witness ==
  /\ Resolved
  /\ getCount(agg.histogram) = 0
  /\ Result.requests.total = 0

-----------------------------------------------------------------------------
(* Samples at or over MAX_LATENCY_US (SpecHist)                            *)

LastBucket == HISTOGRAM_BUCKETS - 1

\* every sample the histogram holds is at or over MAX_LATENCY_US
AllAtOrOverMax(h) == getCount(h) > 0 /\ getMin(h) >= MAX_LATENCY_US

\* C22: a sample at or over MAX_LATENCY_US is counted in the last bucket and
\* in no other; when every sample recorded is at or over MAX_LATENCY_US,
\* every percentile lies in [MAX_LATENCY_US - BUCKET_WIDTH_US, MAX_LATENCY_US).
C22_OverflowSamplesInLastBucket ==
  /\ [][\A x \in HistNames : \A v \in Samples :
          HistRecord(x, v) /\ v >= MAX_LATENCY_US =>
            \A i \in (DOMAIN hist[x].buckets) \cup (DOMAIN hist'[x].buckets) \cup {LastBucket} :
              BucketAt(hist'[x].buckets, i)
                = BucketAt(hist[x].buckets, i) + (IF i = LastBucket THEN 1 ELSE 0)]_vars
  /\ [](\A x \in HistNames :
          AllAtOrOverMax(hist[x]) =>
            \A p \in {<<50, 1>>, <<75, 1>>, <<90, 1>>, <<95, 1>>, <<99, 1>>, <<999, 10>>} :
              LET v == getPercentile(hist[x], p[1], p[2])
              IN MAX_LATENCY_US - BUCKET_WIDTH_US <= v /\ v < MAX_LATENCY_US)

\* a histogram holding MAX_LATENCY_US itself and a larger sample, and nothing else
C22_Witness ==
  \E x \in HistNames :
    /\ getCount(hist[x]) = 2
    /\ getMin(hist[x]) = MAX_LATENCY_US
    /\ getMax(hist[x]) > MAX_LATENCY_US
    /\ BucketAt(hist[x].buckets, LastBucket) = 2

-----------------------------------------------------------------------------
(* The first request of a loop (Spec)                                      *)

\* the loop of worker w is between its start and the end of run()
LoopStarted(w) == wk[w].pc \in {"inflight", "sleeping", "closing"}

-----------------------------------------------------------------------------
(* The start of the workers (Spec)                                         *)

\* a start message is on its way to worker w
StartInFlight(w) == \E i \in 1..Len(toWorker[w]) : toWorker[w][i].type = "start"

\* worker w has sent ready
ReadySent(w) == wk[w].pc \notin {"unborn", "booting"}

\* C24: start is a barrier: no start message is sent to any worker until
\* every worker has sent ready.
C24_StartAfterAllReady ==
  orch.promise # "none" =>
    ((\E w \in WorkerIds : StartInFlight(w)) => \A v \in WorkerIds : ReadySent(v))

-----------------------------------------------------------------------------
(* The snapshots a worker emits (Spec)                                     *)

\* the requests counted by the snapshots in a queue to the main thread
QueuedRequests(q) ==
  SumOver([i \in 1..Len(q) |->
             IF q[i].type \in {"metrics", "done"} THEN q[i].payload.requests ELSE 0],
          1..Len(q))

\* the requests counted by all the snapshots emitted so far, handled or queued
EmittedRequests ==
  received.requests + SumOver([w \in WorkerIds |-> QueuedRequests(toMain[w])], WorkerIds)

\* C25: a snapshot carries only what was recorded since the worker's previous
\* snapshot, so no request is counted by two snapshots: the snapshots emitted
\* count no more requests than were dispatched.
C25_SnapshotsAreDeltas ==
  orch.promise # "none" => EmittedRequests <= issued

-----------------------------------------------------------------------------
(* The messages of one worker (Spec)                                       *)

\* the step ends worker w's handling of a start message: handleStart
\* returns or throws
StartHandled(w) ==
  /\ wk[w].pc \in {"waiting", "inflight", "sleeping", "closing"}
  /\ wk'[w].pc \in {"finished", "crashed"}

\* C26: a worker sends no metrics once its loop has ended, and the handling
\* of a start message ends with exactly one done or error message sent to
\* the main thread.
C26_StartEndsWithDoneOrError ==
  /\ [](\A w \in WorkerIds : wk[w].pc \in {"closing", "finished"} => ~wk[w].timerOn)
  /\ [][\A w \in WorkerIds :
          StartHandled(w) =>
            /\ Len(toMain'[w]) = Len(toMain[w]) + 1
            /\ toMain'[w][Len(toMain'[w])].type \in {"done", "error"}]_vars

-----------------------------------------------------------------------------
(* Stop (Spec)                                                             *)

\* worker w's loop has processed stop and has not left its while loop yet
Stopping(w) == wk[w].pc \in {"inflight", "sleeping"} /\ ~wk[w].loop.running

-----------------------------------------------------------------------------
(* The end of a worker thread (Spec)                                       *)

\* nothing is left to happen: no message is queued and no thread has a step to take
Quiet ==
  /\ orch.promise # "none"
  /\ \A w \in WorkerIds :
       /\ toMain[w] = <<>> /\ toWorker[w] = <<>>
       /\ wk[w].pc \notin {"booting", "inflight", "sleeping", "closing"}

\* C28: a worker that has sent done or error exits on its own, with code 0
\* after done: no thread that has returned from handleStart is left alive
\* when nothing is left to happen, and the exit event of a worker whose done
\* was handled carries code 0.
C28_WorkerExitsOnItsOwn ==
  /\ Quiet => \A w \in WorkerIds : wk[w].pc # "finished"
  /\ \A w \in WorkerIds : \A i \in 1..Len(toMain[w]) :
       toMain[w][i].type = "exit" /\ w \in received.doneFrom => toMain[w][i].code = 0

-----------------------------------------------------------------------------
(* Requests and the deadline of a loop (SpecRate)                          *)

\* the step dispatches a request of worker i: executeRequest begins
RateDispatches(i) == rl'.w[i].requests = rl.w[i].requests + 1

\* C29: a worker never dispatches a request once its deadline has elapsed:
\* every executeRequest call begins strictly before the deadline.
C29_NoDispatchAfterDeadline ==
  [][\A i \in RateWorkerIds : RateDispatches(i) => rl.now < rl'.w[i].endTime]_vars

-----------------------------------------------------------------------------
(* The loops and the lifecycle deadline (Spec)                             *)

\* worker w's loop has left its while loop without having been stopped
LoopEndedByDeadline(w) == wk[w].pc = "closing" /\ wk[w].loop.running

\* C30: a worker's loop keeps issuing requests until the lifecycle deadline,
\* warmup end + D: a loop that was not stopped has not ended before it.
C30_LoopRunsToLifecycleDeadline ==
  \A w \in WorkerIds : LoopEndedByDeadline(w) => now >= orch.mainEndTime

-----------------------------------------------------------------------------
(* SpecLife: one LifecycleManager (orchestrator/lifecycle.ts) under start,  *)
(* update and complete, called at any time.  lc.now is performance.now()    *)
(* in seconds; lc.started tells whether start() was called, which, as in    *)
(* Orchestrator.run, happens once.                                          *)

\* bound: the clock of SpecLife stops at MaxLifeTime
MaxLifeTime == 4

\* durationSec and warmupSec given to the constructor
LifeDurations == 0..2

\* new LifecycleManager(durationSec, warmupSec)
NewLifecycleManager ==
  [phase |-> "idle", warmupEndTime |-> 0, mainEndTime |-> 0]

\* update that tests the clock and not the phase it is in (mutant)
lifecycleUpdateAnyPhase(l, t) ==
  IF t >= l.mainEndTime THEN [l EXCEPT !.phase = "cooldown"]
  ELSE IF t >= l.warmupEndTime THEN [l EXCEPT !.phase = "running"]
  ELSE l

\* LifecycleManager.update at time t: the two tests, one after the other
lifecycleUpdate(l, t) ==
  LET l1 == IF l.phase = "warmup" /\ t >= l.warmupEndTime
              THEN [l EXCEPT !.phase = "running"] ELSE l
  IN IF l1.phase = "running" /\ t >= l1.mainEndTime
       THEN [l1 EXCEPT !.phase = "cooldown"] ELSE l1

\* LifecycleManager.complete
lifecycleComplete(l) == [l EXCEPT !.phase = "complete"]

InitLife ==
  /\ lc \in [duration : LifeDurations, warmup : LifeDurations, now : {0},
             life : {NewLifecycleManager}, started : {FALSE}]
  /\ HistIdle /\ AggIdle /\ RunIdle /\ CliIdle /\ RateIdle /\ LoopIdle
  /\ BucketIdle /\ ShareIdle

LifeOthers == <<histVars, aggVars, runVars, cliVars, rateVars, loopVars, bucketVars, shareVars>>

\* lifecycle.start()
LifeStart ==
  /\ ~lc.started
  /\ lc' = [lc EXCEPT !.life = lifecycleStart(lc.duration, lc.warmup, lc.now),
                      !.started = TRUE]
  /\ UNCHANGED LifeOthers

\* lifecycle.update()
LifeUpdate ==
  /\ lc' = [lc EXCEPT !.life = lifecycleUpdate(@, lc.now)]
  /\ UNCHANGED LifeOthers

\* lifecycle.complete()
LifeComplete ==
  /\ lc' = [lc EXCEPT !.life = lifecycleComplete(@)]
  /\ UNCHANGED LifeOthers

LifeTick ==
  /\ lc.now < MaxLifeTime
  /\ lc' = [lc EXCEPT !.now = @ + 1]
  /\ UNCHANGED LifeOthers

NextLife ==
  \/ LifeStart
  \/ LifeUpdate
  \/ LifeComplete
  \/ LifeTick

SpecLife == InitLife /\ [][NextLife]_vars

\* the order of the phases
PhaseRank(phase) ==
  CASE phase = "idle" -> 0
    [] phase = "warmup" -> 1
    [] phase = "running" -> 2
    [] phase = "cooldown" -> 3
    [] phase = "complete" -> 4

\* C31: start() sets warmup iff W > 0, else running; update() moves warmup to
\* running once now >= warmup-end and running to cooldown once
\* now >= warmup-end + D, and changes nothing in idle, cooldown or complete;
\* complete() sets complete; so after start() the phase never moves backwards
\* in the order warmup < running < cooldown < complete.
C31_PhaseMachineIsMonotonic ==
  [][ /\ LifeStart =>
           /\ lc'.life.phase = (IF lc.warmup > 0 THEN "warmup" ELSE "running")
           /\ lc'.life.warmupEndTime = lc.now + lc.warmup
      /\ (LifeUpdate /\ lc.started) =>
           LET warmupEnd == lc.life.warmupEndTime
               afterWarmup == IF lc.life.phase = "warmup" /\ lc.now >= warmupEnd
                                THEN "running" ELSE lc.life.phase
           IN lc'.life.phase =
                (IF afterWarmup = "running" /\ lc.now >= warmupEnd + lc.duration
                   THEN "cooldown" ELSE afterWarmup)
      /\ (LifeUpdate /\ lc.life.phase \in {"idle", "cooldown", "complete"}) =>
           lc'.life = lc.life
      /\ LifeComplete => lc'.life.phase = "complete"
      /\ lc.started => PhaseRank(lc'.life.phase) >= PhaseRank(lc.life.phase)
    ]_vars

\* a lifecycle started in warmup that update() has taken through running to
\* cooldown
C31_Witness ==
  /\ lc # <<>>
  /\ lc.started /\ lc.warmup > 0 /\ lc.duration > 0
  /\ lc.life.phase = "cooldown"

-----------------------------------------------------------------------------
(* SpecBucket: one RateLimiter (scheduler/rate-limiter.ts) and its callers. *)
(* tb.now is performance.now() in whole milliseconds, the limiter is built  *)
(* at time 0, and tokens are counted in thousandths, so that                *)
(* (elapsed / 1000) * ratePerSecond is the integer elapsed * ratePerSecond; *)
(* doubles are modelled by exact arithmetic.  One caller at a time is in    *)
(* acquire(), as in RequestLoop.run; tryAcquire() and getTokens() are       *)
(* called at any time.  A timer set for d milliseconds fires at a whole     *)
(* millisecond, d truncated (and at least 1) after it was set, or later.    *)

\* bound: the clock of SpecBucket stops at MaxBucketTime milliseconds
MaxBucketTime == 400

\* thousandths of a token in one token
TOKEN == 1000

\* ratePerSecond given to the constructor
BucketRates == {1, 2, 3}

\* the steps the clock moves by, in milliseconds, besides the step to the
\* instant the pending timer is due
Delays == {1, 100}

\* new RateLimiter(ratePerSecond) at time t
NewTokenBucket(ratePerSecond, t) ==
  [ratePerSecond |-> ratePerSecond, tokens |-> ratePerSecond * TOKEN, lastRefill |-> t]

\* RateLimiter.refill at time t
refillMs(l, t) ==
  LET elapsed == t - l.lastRefill
      tokensToAdd == elapsed * l.ratePerSecond
  IN IF tokensToAdd >= TOKEN
       THEN [l EXCEPT !.tokens = Min2(l.ratePerSecond * TOKEN, l.tokens + tokensToAdd),
                      !.lastRefill = t]
       ELSE l

\* setTimeout(resolve, ms) for ms = n / d: the delay in whole milliseconds
setTimeoutDelay(n, d) == Max2(1, Floor(n, d))

\* RateLimiter.tryAcquire at time t: the limiter left behind and the result
tryAcquire(l, t) ==
  LET l1 == refillMs(l, t)
  IN IF l1.tokens >= TOKEN
       THEN [limiter |-> [l1 EXCEPT !.tokens = @ - TOKEN], granted |-> TRUE]
       ELSE [limiter |-> l1, granted |-> FALSE]

\* RateLimiter.acquire at time t up to its return or its sleep: the limiter
\* left behind and the delay of the sleep (NULL when it returns at once).
\* waitTime = intervalMs - (elapsed % intervalMs) with intervalMs = 1000 / rate
\* is (1000 - (elapsed * rate) % 1000) / rate.
acquireMs(l, t) ==
  LET a == tryAcquire(l, t)
      elapsed == t - a.limiter.lastRefill
      waitTimeN == 1000 - ((elapsed * l.ratePerSecond) % 1000)
  IN [limiter |-> a.limiter,
      sleep |-> IF a.granted THEN NULL
                ELSE setTimeoutDelay(Max2(0, waitTimeN), l.ratePerSecond)]

\* acquire after its sleep: refill, then tokens -= 1
acquireMsAfterSleep(l, t) ==
  LET l1 == refillMs(l, t)
  IN [l1 EXCEPT !.tokens = @ - TOKEN]

\* RateLimiter.getTokens at time t
getTokens(l, t) == refillMs(l, t)

InitBucket ==
  /\ tb \in [limiter : {NewTokenBucket(r, 0) : r \in BucketRates}, now : {0},
             pc : {"idle"}, wakeAt : {NULL}, granted : {0}]
  /\ HistIdle /\ AggIdle /\ RunIdle /\ CliIdle /\ RateIdle /\ LoopIdle
  /\ LifeIdle /\ ShareIdle

BucketOthers == <<histVars, aggVars, runVars, cliVars, rateVars, loopVars, lifeVars, shareVars>>

\* a call of acquire()
BucketAcquire ==
  /\ tb.pc = "idle"
  /\ LET a == acquireMs(tb.limiter, tb.now)
     IN tb' = IF a.sleep = NULL
                THEN [tb EXCEPT !.limiter = a.limiter, !.granted = @ + 1]
                ELSE [tb EXCEPT !.limiter = a.limiter, !.pc = "sleeping",
                                !.wakeAt = tb.now + a.sleep]
  /\ UNCHANGED BucketOthers

\* the timer of acquire's sleep fires
BucketWake ==
  /\ tb.pc = "sleeping"
  /\ tb.now >= tb.wakeAt
  /\ tb' = [tb EXCEPT !.limiter = acquireMsAfterSleep(@, tb.now),
                      !.pc = "idle", !.wakeAt = NULL, !.granted = @ + 1]
  /\ UNCHANGED BucketOthers

\* a call of tryAcquire()
BucketTryAcquire ==
  /\ LET a == tryAcquire(tb.limiter, tb.now)
     IN tb' = [tb EXCEPT !.limiter = a.limiter,
                         !.granted = IF a.granted THEN @ + 1 ELSE @]
  /\ UNCHANGED BucketOthers

\* a call of getTokens()
BucketGetTokens ==
  /\ tb' = [tb EXCEPT !.limiter = getTokens(@, tb.now)]
  /\ UNCHANGED BucketOthers

\* time passes
BucketElapse ==
  /\ \E d \in Delays \cup (IF tb.pc = "sleeping" /\ tb.wakeAt > tb.now
                             THEN {tb.wakeAt - tb.now} ELSE {}) :
       /\ tb.now + d <= MaxBucketTime
       /\ tb' = [tb EXCEPT !.now = @ + d]
  /\ UNCHANGED BucketOthers

NextBucket ==
  \/ BucketAcquire
  \/ BucketWake
  \/ BucketTryAcquire
  \/ BucketGetTokens
  \/ BucketElapse

SpecBucket == InitBucket /\ [][NextBucket]_vars

\* C32: after every RateLimiter operation, 0 <= tokens <= capacity = r, for
\* every rate r >= 1 and every timing of calls and timer wake-ups.
C32_TokensWithinCapacity ==
  /\ 0 <= tb.limiter.tokens
  /\ tb.limiter.tokens <= tb.limiter.ratePerSecond * TOKEN

\* C33: the tokens granted during the first t seconds after construction
\* (tb.now milliseconds) never exceed r + r * t.
C33_GrantsWithinBurstPlusRate ==
  tb.granted * TOKEN <= tb.limiter.ratePerSecond * TOKEN + tb.limiter.ratePerSecond * tb.now

-----------------------------------------------------------------------------
(* SpecShare: the Orchestrator's constructor and startWorker on hosts of    *)
(* several sizes (scheduler/rate-limiter.ts).  sh.workerCount is NULL until *)
(* the constructor has run; sh.sent holds the WorkerConfig of every Start   *)
(* sent, by its id, connections and rate.                                   *)

\* bound: config.connections and config.rate go up to MaxShare
MaxShare == 10

\* cpus().length of the hosts
CpuCounts == {1, 2, 4, 8, 16}

\* calculateWorkerCount on a host with cpusLength CPUs
calculateWorkerCountOn(cpusLength, connections) ==
  Min2(MAX_WORKERS, Min2(Max2(1, cpusLength), connections))

\* startWorker with the shares rounded down (mutant)
startWorkerSharesFloor(workerId, connections, rate, n) ==
  [id |-> workerId,
   connections |-> Floor(connections, n),
   rate |-> IF rate # NULL THEN Floor(rate, n) ELSE NULL]

\* startWorker: connectionsPerWorker and ratePerWorker of the WorkerConfig
startWorkerShares(workerId, connections, rate, n) ==
  [id |-> workerId,
   connections |-> Ceil(connections, n),
   rate |-> IF rate # NULL THEN Ceil(rate, n) ELSE NULL]

InitShare ==
  /\ sh \in [cpus : CpuCounts, connections : 1..MaxShare,
             rate : {NULL} \cup {1, 2, 3, 7, MaxShare},
             workerCount : {NULL}, sent : {{}}]
  /\ HistIdle /\ AggIdle /\ RunIdle /\ CliIdle /\ RateIdle /\ LoopIdle
  /\ LifeIdle /\ BucketIdle

ShareOthers == <<histVars, aggVars, runVars, cliVars, rateVars, loopVars, lifeVars, bucketVars>>

\* new Orchestrator(config)
ShareConstruct ==
  /\ sh.workerCount = NULL
  /\ sh' = [sh EXCEPT !.workerCount = calculateWorkerCountOn(sh.cpus, sh.connections)]
  /\ UNCHANGED ShareOthers

\* worker w's ready is handled: startWorker(w)
ShareStartWorker(w) ==
  /\ sh.workerCount # NULL
  /\ w \in 0..(sh.workerCount - 1)
  /\ \A c \in sh.sent : c.id # w
  /\ sh' = [sh EXCEPT !.sent = @ \cup
              {startWorkerShares(w, sh.connections, sh.rate, sh.workerCount)}]
  /\ UNCHANGED ShareOthers

NextShare ==
  \/ ShareConstruct
  \/ \E w \in 0..(MAX_WORKERS - 1) : ShareStartWorker(w)

SpecShare == InitShare /\ [][NextShare]_vars

\* the connections and the rates of the Starts sent, added up
SentConnections == SumOver([c \in sh.sent |-> c.connections], sh.sent)
SentRate == SumOver([c \in sh.sent |-> c.rate], sh.sent)

\* every worker of the run was sent its Start
AllStarted == sh.workerCount # NULL /\ Cardinality(sh.sent) = sh.workerCount

\* C34: with N = min(8, CPU_count, C) every worker config has connections
\* ceil(C / N) and rate ceil(R / N) (unlimited when R is unset), so the totals
\* over the N workers are at least C and R and exceed them by at most N - 1.
C34_SharesCoverTheAggregate ==
  sh.workerCount # NULL =>
    LET N == sh.workerCount
    IN /\ N = Min2(8, Min2(sh.cpus, sh.connections))
       /\ \A c \in sh.sent :
            /\ c.connections * N >= sh.connections
            /\ (c.connections - 1) * N < sh.connections
            /\ sh.rate = NULL => c.rate = NULL
            /\ sh.rate # NULL => /\ c.rate * N >= sh.rate
                                 /\ (c.rate - 1) * N < sh.rate
       /\ AllStarted =>
            /\ SentConnections >= sh.connections
            /\ SentConnections - sh.connections <= N - 1
            /\ sh.rate # NULL => /\ SentRate >= sh.rate
                                 /\ SentRate - sh.rate <= N - 1

\* eight workers, all started, whose shares add up to more than was asked
\* for, in connections and in rate
C34_Witness ==
  /\ sh # <<>>
  /\ AllStarted /\ sh.workerCount = MAX_WORKERS
  /\ sh.rate # NULL
  /\ SentConnections > sh.connections
  /\ SentRate > sh.rate

-----------------------------------------------------------------------------
(* Percentiles against the recorded values (SpecHist)                       *)

\* the percentiles asked for, as quotients <<pn, pd>>: those of
\* calculatePercentiles, and the two ends of [0, 100]
Percentiles == {<<0, 1>>, <<50, 1>>, <<75, 1>>, <<90, 1>>, <<95, 1>>, <<99, 1>>,
                <<999, 10>>, <<100, 1>>}

\* ceil((p / 100) * count)
TargetRank(x, q) == Ceil(q[1] * hist[x].count, q[2] * 100)

\* v is the midpoint (i + 0.5) * w of the first bucket i of histogram x whose
\* cumulative count reaches the target of percentile q
IsFirstBucketMidpoint(x, q, v) ==
  LET i == (v - BUCKET_WIDTH_US \div 2) \div BUCKET_WIDTH_US
  IN /\ v = i * BUCKET_WIDTH_US + BUCKET_WIDTH_US \div 2
     /\ i \in 0..(HISTOGRAM_BUCKETS - 1)
     /\ Cumulative(hist[x].buckets, i) >= TargetRank(x, q)
     /\ i > 0 => Cumulative(hist[x].buckets, i - 1) < TargetRank(x, q)

\* a and b are at most half a bucket apart
WithinHalfBucket(a, b) ==
  2 * (a - b) <= BUCKET_WIDTH_US /\ 2 * (b - a) <= BUCKET_WIDTH_US

-----------------------------------------------------------------------------
(* The bucket counts against count (SpecHist)                               *)

\* the sum of all the bucket counts of histogram h
BucketTotal(h) == SumOver(h.buckets, DOMAIN h.buckets)

\* C36: after any sequence of record, import/merge and reset, with arbitrary
\* integer sample values, the sum of all bucket counts equals count, and each
\* record increments exactly one bucket with index in [0, B-1] and leaves
\* every other bucket unchanged.
C36_BucketCountsSumToCount ==
  /\ [](\A x \in HistNames : BucketTotal(hist[x]) = hist[x].count)
  /\ [][\A x \in HistNames, v \in Samples :
          HistRecord(x, v) =>
            \E i \in 0..(HISTOGRAM_BUCKETS - 1) :
              /\ BucketAt(hist'[x].buckets, i) = BucketAt(hist[x].buckets, i) + 1
              /\ \A j \in (DOMAIN hist[x].buckets) \cup (DOMAIN hist'[x].buckets) :
                   j # i => BucketAt(hist'[x].buckets, j) = BucketAt(hist[x].buckets, j)
              /\ DOMAIN hist'[x].buckets \subseteq 0..(HISTOGRAM_BUCKETS - 1)]_vars

-----------------------------------------------------------------------------
(* Requests in flight (Spec)                                                *)

\* the requests of worker w's loop that executeRequest has begun and not yet
\* tallied as successful or failed
InFlight(w) == wk[w].loop.requests - wk[w].loop.successful - wk[w].loop.failed

\* the requests in flight in the whole run
TotalInFlight == SumOver([w \in WorkerIds |-> InFlight(w)], WorkerIds)

-----------------------------------------------------------------------------
(* Stop after a failure (Spec)                                              *)

\* a stop posted to worker w is still on its way
StopPending(w) == \E k \in DOMAIN toWorker[w] : toWorker[w][k] = StopMessage

\* C38: after the orchestrator has broadcast Stop because of a worker
\* failure, no worker dispatches a new request (once the Stop posted to it has
\* reached it): a Stop that reaches a worker before its Start is not lost, and
\* a worker whose Ready arrives after the failure is not sent Start.
C38_NoDispatchAfterFailureStop ==
  [][\A w \in WorkerIds :
       (Rejected /\ ~StopPending(w)) =>
          /\ wk'[w].loop.requests <= wk[w].loop.requests
          /\ \A k \in DOMAIN toWorker'[w] : toWorker'[w][k].type # "start"]_vars

-----------------------------------------------------------------------------
(* One outcome per run (Spec)                                               *)

\* finalize has run: it assembled a result and completed the lifecycle
Finalized == orch.result.assembled \/ orch.phase = "complete"

\* C39: a run settles at most once and with one outcome: once run() has been
\* rejected because of a worker error or non-zero exit, finalize is never
\* executed afterwards, and once a result has been resolved no worker exit or
\* error produces a rejection.
C39_RunSettlesOnce ==
  /\ [](Rejected => ~Finalized)
  /\ [][/\ Rejected => orch'.promise = "rejected" /\ orch'.result = orch.result
        /\ Resolved => /\ orch'.promise = "resolved"
                       /\ orch'.result = orch.result
                       /\ \A w \in WorkerIds : ~FailureHandled(w)]_vars

\* a rejected run of two workers in which the other worker's done was handled
C39_Witness ==
  /\ Rejected
  /\ workerCount = 2
  /\ received.doneFrom # {}
  /\ \A w \in WorkerIds : toMain[w] = <<>>

-----------------------------------------------------------------------------
(* SpecLive: Spec with fairness.  Time passes; the main thread's event loop *)
(* runs the handler of a message or event that is queued; a worker thread's *)
(* event loop runs what is ready in it: its boot, the handler of a queued   *)
(* message, the continuation of a request, of a sleep or of close() that    *)
(* has settled.  That every request, sleep and close() settles is the       *)
(* hypothesis under which termination is claimed.                           *)

\* the worker ids a run can have on this host
HostWorkerIds == 0..(Min2(MAX_WORKERS, Max2(1, cpuCount)) - 1)

\* a task of worker w's thread
WorkerStep(w) ==
  /\ w \in WorkerIds
  /\ \/ WorkerBoot(w)
     \/ WorkerOnStart(w)
     \/ WorkerStartThrows(w)
     \/ WorkerOnStop(w)
     \/ \E outcome \in Outcomes : RequestSettles(w, outcome)
     \/ SleepEnds(w)
     \/ CloseResolves(w)
     \/ CloseRejects(w)

\* a task of the main thread for a message or event of worker w
MainStep(w) ==
  /\ w \in WorkerIds
  /\ \/ OnReady(w)
     \/ OnMetrics(w)
     \/ OnDone(w)
     \/ OnError(w)
     \/ OnExit(w)

Fairness ==
  /\ WF_vars(OrchRun)
  /\ WF_vars(Tick)
  /\ \A w \in HostWorkerIds : WF_vars(WorkerStep(w)) /\ WF_vars(MainStep(w))

SpecLive == Init /\ [][Next]_vars /\ Fairness

\* worker w has failed: its thread died, or it sent error, and the main
\* thread has not handled it yet
WorkerFailed(w) ==
  \/ wk[w].pc = "crashed"
  \/ \E k \in DOMAIN toMain[w] : toMain[w][k].type \in {"error", "errorEvent"}

AnyWorkerFailed == \E w \in WorkerIds : WorkerFailed(w)

\* every worker's done was handled and run() resolved with a result
ResolvedAfterAllDone ==
  Resolved /\ Result.assembled /\ received.doneFrom = WorkerIds

\* the run has used up the MaxRequests requests of the model and a worker
\* holds a start, or comes out of a sleep, that would send one more
RequestsExhausted ==
  /\ issued >= MaxRequests
  /\ \E w \in WorkerIds :
       \/ wk[w].pc = "sleeping"
       \/ wk[w].pc = "waiting" /\ toWorker[w] # <<>> /\ Head(toWorker[w]).type = "start"

\* C40: for every configuration with C >= 1 and D > 0, if every HTTP request
\* eventually completes, messages are eventually delivered and no worker
\* fails, then every worker eventually sends done and run() eventually
\* resolves with a result; if a worker does fail, run() eventually rejects.
\* (Runs of up to MaxRequests requests.)
C40_RunEventuallySettles ==
  /\ <>(\/ cfg.connections < 1 \/ cfg.duration <= 0
        \/ ResolvedAfterAllDone
        \/ AnyWorkerFailed \/ Rejected
        \/ RequestsExhausted)
  /\ ((cfg.connections >= 1 /\ cfg.duration > 0 /\ AnyWorkerFailed) ~> Rejected)

\* a run of two workers, resolved after both sent done, with requests issued
C40_Witness ==
  /\ cfg # <<>>
  /\ workerCount = 2
  /\ cfg.duration > 0
  /\ ResolvedAfterAllDone
  /\ issued >= 1

=============================================================================
